---- MODULE Spec2Model ----
(***************************************************************************)
(* Model of the Pool Client of the Stratum V2 Job Declarator Client        *)
(* (src/src/pool/mod.rs) and of the inbound message parsers                *)
(* (src/src/pool/sv2_messages.rs).                                         *)
(*                                                                         *)
(* Bytes are integers 0..255, byte strings are sequences of bytes.  The    *)
(* client task is one process whose position is pc; the pool, the bus      *)
(* publishers and the socket are the environment.                          *)
(***************************************************************************)
EXTENDS Integers, Sequences, FiniteSets, TLC

VARIABLES
    pc,            \* position of PoolClient::run
    addr_ok,       \* whether cfg.address parses as a SocketAddr
    hs_state,      \* PoolClient.hs_state
    decl_state,    \* PoolClient.decl_state
    token,         \* PoolClient.token : Option<Vec<u8>>
    req_seq,       \* PoolClient.req_seq : u32
    hash_nonce,    \* PoolClient.hash_nonce : u64, sampled once in new()
    pending,       \* PoolClient.pending : HashMap<u32, PendingDecl>
    blk_height,    \* PoolClient.blk_height
    coinbase_val,  \* PoolClient.coinbase_val
    out,           \* frames in the session's mpsc channel (out_tx -> out_rx)
    sent,          \* request ids of the DeclJob frames queued in this session
    buf,           \* run_protocol's buf: bytes read and not yet split off
    wire,          \* the pool's side of the socket: the frames it wrote and
                   \* the bytes of them no read has returned yet
    got,           \* frames process_data has handed to handle_msg so far
    bus,           \* the client's broadcast receiver bus_rx: the events other
                   \* tasks published that it has not received, and whether
                   \* older ones were dropped since its last recv
    emitted,       \* events the client published on bus_tx in the last step
    main_pc,       \* position of main: the UI runs, or Shutdown is sent and
                   \* main waits for an actor or its timeout, or it returned
    jobs_log,      \* the JobSent, JobOk and JobFailed events the client has
                   \* published since it started, oldest first (kept where
                   \* a property speaks of the whole run)
    last           \* what the last step was (operation and its input)

vars == <<pc, addr_ok, hs_state, decl_state, token, req_seq, hash_nonce,
          pending, blk_height, coinbase_val, out, sent, buf, wire, got, bus,
          emitted, jobs_log, main_pc, last>>

(***************************************************************************)
(* Bounds of the model.                                                    *)
(***************************************************************************)
\* request ids the client may allocate in one run
MaxReq == 3
\* frames waiting in the outbound channel
MaxOut == 1
\* template ids the Template Source uses
MaxTpl == 2
\* width of the request counter in the model
SeqBits == 2

(***************************************************************************)
(* Program constants.                                                      *)
(***************************************************************************)
ALLOC_TOKEN == 80
ALLOC_TOKEN_OK == 81
DECL_JOB == 82
DECL_JOB_OK == 83
DECL_JOB_ERR == 84
IDENTIFY_TXS == 85
PROVIDE_TXS == 86
PROVIDE_TXS_OK == 87
DECL_EXT == 2
EXPECTED_LEN == 234
BLK_VERSION == 536870912
SUBSIDY == 312500000
MIN_NONCE2 == 8
HDR == 6
OUT_CAP == 32

\* req_seq is a u32; TLC's integers stop at 2^31 - 1, so the counter is kept
\* with SeqBits bits and wraps at SeqMod the way the u32 wraps at 2^32
SeqMod == 2 ^ SeqBits

(***************************************************************************)
(* Option, DeclState, byte helpers.                                        *)
(***************************************************************************)
None == [some |-> FALSE]
Some(v) == [some |-> TRUE, val |-> v]

NeedToken == [tag |-> "NeedToken"]
AwaitToken(r) == [tag |-> "AwaitToken", req |-> r]
Ready == [tag |-> "Ready"]
Pending(r) == [tag |-> "Pending", req |-> r]
AwaitTx(r) == [tag |-> "AwaitTx", req |-> r]

\* data[a..b] of Rust (zero-based, half-open)
Slice(data, a, b) == SubSeq(data, a + 1, b)
\* data[i] of Rust (zero-based)
At(data, i) == data[i + 1]

\* u32::from_le_bytes / u16::from_le_bytes at zero-based offset i
U32At(data, i) ==
    At(data, i) + 256 * At(data, i + 1) + 65536 * At(data, i + 2)
        + 16777216 * At(data, i + 3)
U16At(data, i) == At(data, i) + 256 * At(data, i + 1)

\* to_le_bytes
U32LE(n) == << n % 256, (n \div 256) % 256, (n \div 65536) % 256,
               (n \div 16777216) % 256 >>
U16LE(n) == << n % 256, (n \div 256) % 256 >>

\* the three length bytes of a frame header, low byte first
U24At(data, i) == At(data, i) + 256 * At(data, i + 1) + 65536 * At(data, i + 2)
\* a length field that keeps two bytes of the length
U24LE_two_bytes(n) == << n % 256, (n \div 256) % 256, 0 >>

U24LE(n) == << n % 256, (n \div 256) % 256, (n \div 65536) % 256 >>

ParseErr(why) == [ok |-> FALSE, err |-> why]

(***************************************************************************)
(* Inbound parsers (sv2_messages.rs).  A parser returns [ok |-> TRUE, ...] *)
(* or ParseErr(reason) for Err(Sv2Error::Serialization(reason)).           *)
(***************************************************************************)
AllocTokenOk_parse(data) ==
    IF Len(data) < 4 THEN ParseErr("too short")
    ELSE IF 4 >= Len(data) THEN ParseErr("missing token len")
    ELSE LET tlen == At(data, 4)
             pos == 5 + tlen
         IN  IF pos > Len(data) THEN ParseErr("truncated token")
             ELSE IF pos + 4 > Len(data) THEN ParseErr("missing max_cb_extra")
             ELSE IF pos + 4 >= Len(data) THEN ParseErr("missing async flag")
             ELSE [ok |-> TRUE,
                   req_id |-> U32At(data, 0),
                   token |-> Slice(data, 5, pos),
                   max_cb_extra |-> U32At(data, pos),
                   async_ok |-> (At(data, pos + 4) # 0)]

\* data.get(i).copied().unwrap_or(0)
GetOr0(data, i) == IF i < Len(data) THEN At(data, i) ELSE 0

\* the test `data.len() > 5 + tlen` that guards the token body
JobOkBodyPresent(len, tlen) == tlen > 0 /\ len > 5 + tlen

DeclJobOk_parse(data) ==
    IF Len(data) < 4 THEN ParseErr("too short")
    ELSE LET tlen == GetOr0(data, 4)
         IN  [ok |-> TRUE,
              req_id |-> U32At(data, 0),
              new_token |-> IF JobOkBodyPresent(Len(data), tlen)
                            THEN Slice(data, 5, 5 + tlen)
                            ELSE << >>]

\* impl From<u8> for DeclErrCode, printed with {:?}
DeclErrCode_from(v) ==
    CASE v = 1 -> "BadToken"
      [] v = 2 -> "BadParams"
      [] v = 3 -> "Stale"
      [] OTHER -> "Unknown"

\* String::from_utf8_lossy on bytes that are ASCII or 0xFF: an ASCII byte is
\* the character itself, an invalid byte becomes U+FFFD (65533)
Utf8Lossy(bytes) ==
    [i \in 1..Len(bytes) |-> IF bytes[i] < 128 THEN bytes[i] ELSE 65533]

\* the test `data.len() > 6 + dlen` that guards the details body
JobErrBodyPresent(len, dlen) == dlen > 0 /\ len > 6 + dlen

DeclJobErr_parse(data) ==
    IF Len(data) < 5 THEN ParseErr("too short")
    ELSE LET dlen == GetOr0(data, 5)
         IN  [ok |-> TRUE,
              req_id |-> U32At(data, 0),
              code |-> DeclErrCode_from(At(data, 4)),
              details |-> IF JobErrBodyPresent(Len(data), dlen)
                          THEN Utf8Lossy(Slice(data, 6, 6 + dlen))
                          ELSE << >>]

\* the loop `for _ in 0..cnt { if pos + 2 <= data.len() { push; pos += 2 } }`;
\* once the test fails pos no longer moves, so the remaining rounds do nothing
RECURSIVE ReadPositions(_, _, _)
ReadPositions(data, left, pos) ==
    IF left = 0 \/ pos + 2 > Len(data) THEN << >>
    ELSE << U16At(data, pos) >> \o ReadPositions(data, left - 1, pos + 2)

IdentifyTxs_parse(data) ==
    IF Len(data) < 4 THEN ParseErr("too short")
    ELSE [ok |-> TRUE,
          req_id |-> U32At(data, 0),
          positions |-> IF Len(data) > 6
                        THEN ReadPositions(data, U16At(data, 4), 6)
                        ELSE << >>]

ProvideTxsOk_parse(data) ==
    IF Len(data) < 4 THEN ParseErr("too short")
    ELSE [ok |-> TRUE, req_id |-> U32At(data, 0)]

(***************************************************************************)
(* Hashes.  SHA-256 is not computed: a digest is the record of what was    *)
(* hashed, which keeps it injective.                                       *)
(***************************************************************************)
calc_txid(raw) == [txid_of |-> raw]
calc_short_hash(txid, nonce) == [short_of |-> txid, nonce |-> nonce]
calc_tx_list_hash(txs) == [list_of |-> [i \in 1..Len(txs) |-> calc_txid(txs[i])]]

build_cb_prefix(ver, height, tag) == [ver |-> ver, height |-> height, tag |-> tag]
build_cb_suffix(value, script) == [value |-> value, script |-> script]

\* build_frame(mtype, ext, msg.serialize()), kept as the message it carries
build_frame(mtype, ext, msg) == [mtype |-> mtype, ext |-> ext, msg |-> msg]

\* the six bytes build_frame pushes before the payload, for a payload of
\* len bytes
frame_header(mtype, ext, len) == U16LE(ext) \o << mtype >> \o U24LE(len)

\* build_frame on bytes: ext(u16 LE) | mtype | len(u24 LE) | payload
build_frame_bytes(mtype, ext, payload) ==
    frame_header(mtype, ext, Len(payload)) \o payload

(***************************************************************************)
(* NoiseCodec (crate noise_sv2): the sealed text of p is longer than p and *)
(* differs from it; here every byte is complemented and one tag byte, the  *)
(* length of p, follows.  decrypt fails on a wrong tag.                    *)
(***************************************************************************)
codec_seal(p) == [i \in 1..Len(p) |-> 255 - p[i]] \o << Len(p) % 256 >>

codec_decrypt(c) ==
    IF c = << >> \/ c[Len(c)] # (Len(c) - 1) % 256
    THEN [ok |-> FALSE]
    ELSE [ok |-> TRUE, data |-> [i \in 1..(Len(c) - 1) |-> 255 - c[i]]]

(***************************************************************************)
(* Events on the bus (common/types.rs) and error texts (common/error.rs).  *)
(***************************************************************************)
Ev(t) == [type |-> t]
EvMsg(t, m) == [type |-> t, msg |-> m]
JobSent(tpl, n) == [type |-> "JobSent", tpl_id |-> tpl, txs |-> n]
JobOk(tpl, tok) == [type |-> "JobOk", tpl_id |-> tpl, token |-> tok]
JobFailed(tpl, code, details) ==
    [type |-> "JobFailed", tpl_id |-> tpl,
     reason |-> [code |-> code, details |-> details]]   \* "{code:?}: {details}"

\* Sv2Error as a record; e.to_string() keeps the kind and the detail
SerializationErr(why) == [kind |-> "Serialize", why |-> why]
InvalidStateErr(r) == [kind |-> "Bad state", req |-> r]
PoolClosedErr == [kind |-> "Pool", why |-> "closed"]
IoErr == [kind |-> "IO"]
FramingErr == [kind |-> "Frame"]
ShutdownErr == [kind |-> "Shutdown"]
NoErr == [kind |-> "none"]

(***************************************************************************)
(* The handlers of PoolClient as functions of the client's fields.         *)
(* S is [decl_state, token, req_seq, pending, blk_height, coinbase_val];   *)
(* a handler returns the fields after it, the frames it queued on out_tx,  *)
(* the events it published and the error it returned (NoErr for Ok(())).   *)
(***************************************************************************)
Res(S, frames, evs, err) == [st |-> S, frames |-> frames, evs |-> evs, err |-> err]

\* fn next_req: wrapping_add(1)
next_req(seq) == (seq + 1) % SeqMod

Remove(map, k) == [r \in (DOMAIN map) \ {k} |-> map[r]]
\* an insert that stores nothing
Insert_nothing(map, k, v) == map

Insert(map, k, v) == [r \in (DOMAIN map) \cup {k} |-> IF r = k THEN v ELSE map[r]]

\* on_token_ok that moves to Ready only from AwaitToken
on_token_ok_only_when_awaited(S, data) ==
    LET m == AllocTokenOk_parse(data) IN
    IF ~m.ok THEN Res(S, << >>, << >>, SerializationErr(m.err))
    ELSE Res([S EXCEPT !.token = Some(m.token),
                       !.decl_state = IF S.decl_state.tag = "AwaitToken"
                                      THEN Ready ELSE S.decl_state],
             << >>, << Ev("PoolUp") >>, NoErr)

on_token_ok(S, data) ==
    LET m == AllocTokenOk_parse(data) IN
    IF ~m.ok THEN Res(S, << >>, << >>, SerializationErr(m.err))
    ELSE Res([S EXCEPT !.token = Some(m.token), !.decl_state = Ready],
             << >>, << Ev("PoolUp") >>, NoErr)

\* on_job_ok that looks the entry up and leaves it in pending
on_job_ok_keeps_entry(S, data) ==
    LET m == DeclJobOk_parse(data) IN
    IF ~m.ok THEN Res(S, << >>, << >>, SerializationErr(m.err))
    ELSE LET tok == IF m.new_token # << >> THEN Some(m.new_token) ELSE S.token
             had == m.req_id \in DOMAIN S.pending
         IN  Res([S EXCEPT !.token = tok, !.decl_state = Ready],
                 << >>,
                 IF had THEN << JobOk(S.pending[m.req_id].tpl_id, m.new_token) >>
                        ELSE << >>,
                 NoErr)

on_job_ok(S, data) ==
    LET m == DeclJobOk_parse(data) IN
    IF ~m.ok THEN Res(S, << >>, << >>, SerializationErr(m.err))
    ELSE LET tok == IF m.new_token # << >> THEN Some(m.new_token) ELSE S.token
             had == m.req_id \in DOMAIN S.pending
         IN  Res([S EXCEPT !.token = tok,
                           !.pending = Remove(S.pending, m.req_id),
                           !.decl_state = Ready],
                 << >>,
                 IF had THEN << JobOk(S.pending[m.req_id].tpl_id, m.new_token) >>
                        ELSE << >>,
                 NoErr)

\* on_job_err that removes the entry and publishes, without the transition
on_job_err_no_transition(S, data) ==
    LET m == DeclJobErr_parse(data) IN
    IF ~m.ok THEN Res(S, << >>, << >>, SerializationErr(m.err))
    ELSE LET had == m.req_id \in DOMAIN S.pending
         IN  Res([S EXCEPT !.pending = Remove(S.pending, m.req_id)],
                 << >>,
                 IF had THEN << JobFailed(S.pending[m.req_id].tpl_id, m.code, m.details) >>
                        ELSE << >>,
                 NoErr)

on_job_err(S, data) ==
    LET m == DeclJobErr_parse(data) IN
    IF ~m.ok THEN Res(S, << >>, << >>, SerializationErr(m.err))
    ELSE LET had == m.req_id \in DOMAIN S.pending
         IN  Res([S EXCEPT !.pending = Remove(S.pending, m.req_id),
                           !.decl_state = Ready],
                 << >>,
                 IF had THEN << JobFailed(S.pending[m.req_id].tpl_id, m.code, m.details) >>
                        ELSE << >>,
                 NoErr)

\* the loop over msg.positions ending at the first position out of range
RECURSIVE CollectTxs_stop_at_invalid(_, _)
CollectTxs_stop_at_invalid(txs, positions) ==
    IF positions = << >> THEN << >>
    ELSE LET pos == Head(positions)
         IN  IF pos < Len(txs)
             THEN << At(txs, pos) >> \o CollectTxs_stop_at_invalid(txs, Tail(positions))
             ELSE << >>

\* the loop over msg.positions: p.txs.get(pos) or skip
RECURSIVE CollectTxs(_, _)
CollectTxs(txs, positions) ==
    IF positions = << >> THEN << >>
    ELSE LET pos == Head(positions)
             rest == CollectTxs(txs, Tail(positions))
         IN  IF pos < Len(txs) THEN << At(txs, pos) >> \o rest ELSE rest

\* on_identify_txs that answers an unknown request with no transactions
on_identify_txs_unknown_ok(S, data) ==
    LET m == IdentifyTxs_parse(data) IN
    IF ~m.ok THEN Res(S, << >>, << >>, SerializationErr(m.err))
    ELSE LET txs == IF m.req_id \in DOMAIN S.pending
                    THEN CollectTxs(S.pending[m.req_id].txs, m.positions)
                    ELSE << >>
             resp == [req_id |-> m.req_id, txs |-> txs]
         IN  Res([S EXCEPT !.decl_state = AwaitTx(m.req_id)],
                 << build_frame(PROVIDE_TXS, DECL_EXT, resp) >>, << >>, NoErr)

on_identify_txs(S, data) ==
    LET m == IdentifyTxs_parse(data) IN
    IF ~m.ok THEN Res(S, << >>, << >>, SerializationErr(m.err))
    ELSE IF m.req_id \notin DOMAIN S.pending
         THEN Res(S, << >>, << >>, InvalidStateErr(m.req_id))
    ELSE LET txs == CollectTxs(S.pending[m.req_id].txs, m.positions)
             resp == [req_id |-> m.req_id, txs |-> txs]
         IN  Res([S EXCEPT !.decl_state = AwaitTx(m.req_id)],
                 << build_frame(PROVIDE_TXS, DECL_EXT, resp) >>, << >>, NoErr)

on_txs_ok(S, data) ==
    LET m == ProvideTxsOk_parse(data) IN
    IF ~m.ok THEN Res(S, << >>, << >>, SerializationErr(m.err))
    ELSE Res(S, << >>, << >>, NoErr)

\* handle_msg that treats an unknown type as a framing error
handle_msg_unknown_fails(S, mtype, data) ==
    CASE mtype = ALLOC_TOKEN_OK -> on_token_ok(S, data)
      [] mtype = DECL_JOB_OK    -> on_job_ok(S, data)
      [] mtype = DECL_JOB_ERR   -> on_job_err(S, data)
      [] mtype = IDENTIFY_TXS   -> on_identify_txs(S, data)
      [] mtype = PROVIDE_TXS_OK -> on_txs_ok(S, data)
      [] OTHER                  -> Res(S, << >>, << >>, FramingErr)

handle_msg(S, mtype, data) ==
    CASE mtype = ALLOC_TOKEN_OK -> on_token_ok(S, data)
      [] mtype = DECL_JOB_OK    -> on_job_ok(S, data)
      [] mtype = DECL_JOB_ERR   -> on_job_err(S, data)
      [] mtype = IDENTIFY_TXS   -> on_identify_txs(S, data)
      [] mtype = PROVIDE_TXS_OK -> on_txs_ok(S, data)
      [] OTHER                  -> Res(S, << >>, << >>, NoErr)

\* what process_data returns: the fields, frames, events and error of the
\* handlers it ran, the bytes it left in buf and the frames it dispatched
PdRes(S, frames, evs, err, b, gt) ==
    [st |-> S, frames |-> frames, evs |-> evs, err |-> err, buf |-> b, got |-> gt]

\* whether b starts with a whole frame: header and advertised payload
HasFrame(b) == Len(b) >= HDR /\ Len(b) >= HDR + U24At(b, 3)

\* process_data that returns after the first frame it dispatched
process_data_one_frame(S, b) ==
    IF ~HasFrame(b) THEN PdRes(S, << >>, << >>, NoErr, b, << >>)
    ELSE LET ext == U16At(b, 0)
             mtype == At(b, 2)
             total == HDR + U24At(b, 3)
             rest == Slice(b, total, Len(b))
             dec == IF total > HDR THEN codec_decrypt(Slice(b, HDR, total))
                                   ELSE [ok |-> TRUE, data |-> << >>]
         IN  IF ~dec.ok THEN PdRes(S, << >>, << >>, FramingErr, rest, << >>)
             ELSE LET r == handle_msg(S, mtype, dec.data)
                  IN  PdRes(r.st, r.frames, r.evs, r.err, rest,
                            << << ext, mtype, dec.data >> >>)

\* process_data: while buf holds a whole frame, split it off, decrypt its
\* payload (unless empty) and dispatch; the first error ends the loop
RECURSIVE process_data(_, _)
process_data(S, b) ==
    IF ~HasFrame(b) THEN PdRes(S, << >>, << >>, NoErr, b, << >>)
    ELSE LET ext == U16At(b, 0)
             mtype == At(b, 2)
             total == HDR + U24At(b, 3)
             rest == Slice(b, total, Len(b))
             dec == IF total > HDR THEN codec_decrypt(Slice(b, HDR, total))
                                   ELSE [ok |-> TRUE, data |-> << >>]
         IN  IF ~dec.ok THEN PdRes(S, << >>, << >>, FramingErr, rest, << >>)
             ELSE LET r == handle_msg(S, mtype, dec.data)
                      this == << << ext, mtype, dec.data >> >>
                  IN  IF r.err.kind # "none"
                      THEN PdRes(r.st, r.frames, r.evs, r.err, rest, this)
                      ELSE LET t == process_data(r.st, rest)
                           IN  PdRes(t.st, r.frames \o t.frames, r.evs \o t.evs,
                                     t.err, t.buf, this \o t.got)

\* declare_job without its `decl_state != Ready` early return
declare_job_acts_no_state_check(tok, ds) == tok.some

\* the two early returns of declare_job
declare_job_acts(tok, ds) == tok.some /\ ds = Ready

\* the entry declare_job inserts (sent_at is never read)
PendingDecl(tpl_id, rid, txs, nonce) ==
    [tpl_id |-> tpl_id, req_id |-> rid, txs |-> txs,
     txids |-> [i \in 1..Len(txs) |-> calc_txid(txs[i])], nonce |-> nonce]

\* the DeclJob message carrying the counter as it was before next_req
DeclJobMsg_stale_req(S, rid, outputs, txs) ==
    [req_id |-> S.req_seq,
     token |-> S.token.val,
     version |-> BLK_VERSION,
     cb_prefix |-> build_cb_prefix(BLK_VERSION, S.blk_height, "sv2-jdc"),
     cb_suffix |-> build_cb_suffix(S.coinbase_val,
                      IF outputs # << >> THEN Head(outputs).script_pubkey
                                         ELSE << 106 >>),
     hash_nonce |-> S.hash_nonce,
     short_hashes |-> [i \in 1..Len(txs) |->
                          calc_short_hash(calc_txid(txs[i]), S.hash_nonce)],
     tx_list_hash |-> calc_tx_list_hash(txs),
     extra |-> << >>]

\* the DeclJob message declare_job builds for request id rid
DeclJobMsg(S, rid, outputs, txs) ==
    LET nonce == S.hash_nonce
        txids == [i \in 1..Len(txs) |-> calc_txid(txs[i])]
        shorts == [i \in 1..Len(txs) |-> calc_short_hash(txids[i], nonce)]
        script == IF outputs # << >> THEN Head(outputs).script_pubkey
                                     ELSE << 106 >>
    IN  [req_id |-> rid,
         token |-> S.token.val,
         version |-> BLK_VERSION,
         cb_prefix |-> build_cb_prefix(BLK_VERSION, S.blk_height, "sv2-jdc"),
         cb_suffix |-> build_cb_suffix(S.coinbase_val, script),
         hash_nonce |-> nonce,
         short_hashes |-> shorts,
         tx_list_hash |-> calc_tx_list_hash(txs),
         extra |-> << >>]

declare_job(S, tpl_id, outputs, txs) ==
    IF ~declare_job_acts(S.token, S.decl_state) THEN Res(S, << >>, << >>, NoErr)
    ELSE LET rid == next_req(S.req_seq)
             job == DeclJobMsg(S, rid, outputs, txs)
         IN  Res([S EXCEPT !.req_seq = rid,
                           !.pending = Insert(S.pending, rid,
                                          PendingDecl(tpl_id, rid, txs, S.hash_nonce)),
                           !.decl_state = Pending(rid)],
                 << build_frame(DECL_JOB, DECL_EXT, job) >>,
                 << JobSent(tpl_id, Len(txs)) >>,
                 NoErr)

handle_event(S, ev) ==
    CASE ev.type = "DeclareJob" -> declare_job(S, ev.tpl_id, ev.outputs, ev.txs)
      [] ev.type = "NewTemplate" ->
            Res([S EXCEPT !.blk_height = ev.height,
                          !.coinbase_val = ev.fees + SUBSIDY],
                << >>, << >>, NoErr)
      [] ev.type = "Shutdown" -> Res(S, << >>, << >>, ShutdownErr)
      [] OTHER -> Res(S, << >>, << >>, NoErr)

(***************************************************************************)
(* Inputs: what the environment may hand to the client.                    *)
(***************************************************************************)
Nonces == {7}
Tx0 == << 1 >>
Tx1 == << 2, 3 >>

DeclareJobEv(tpl, outs, txs) ==
    [type |-> "DeclareJob", tpl_id |-> tpl, outputs |-> outs, txs |-> txs]
\* NewTemplate.txs (a count) is written tx_count: DeclareJob.txs is a list
NewTemplateEv(h, n, f) ==
    [type |-> "NewTemplate", height |-> h, tx_count |-> n, fees |-> f]

\* events other tasks publish on the bus (NodeUp stands for every event the
\* client's handle_event matches with `_`)
BusEvents ==
    { DeclareJobEv(1, << [value |-> 50, script_pubkey |-> << 81 >>] >>, << Tx0, Tx1 >>),
      DeclareJobEv(MaxTpl, << >>, << >>),
      NewTemplateEv(840000, 2, 1000), Ev("Shutdown"), Ev("NodeUp") }

\* payloads as a pool encodes them (wire formats of the Job Declaration
\* sub-protocol)
EncAllocTokenOk(req, tok, max, async) ==
    U32LE(req) \o << Len(tok) >> \o tok \o U32LE(max) \o << async >>
EncDeclJobOk(req, tok) == U32LE(req) \o << Len(tok) >> \o tok
EncDeclJobErr(req, code, details) ==
    U32LE(req) \o << code, Len(details) >> \o details
RECURSIVE EncPositions(_)
EncPositions(ps) ==
    IF ps = << >> THEN << >> ELSE U16LE(Head(ps)) \o EncPositions(Tail(ps))
EncIdentifyTxs(req, ps) == U32LE(req) \o U16LE(Len(ps)) \o EncPositions(ps)
EncProvideTxsOk(req) == U32LE(req)

\* the payload p cut after k bytes, for the cut points ks
Cuts(p, ks) == { SubSeq(p, 1, k) : k \in ks }

\* request ids the pool names: those the client may give a declaration
PoolReqs == 2..MaxReq
TokenA == << 170, 187 >>
TokenC == << 204 >>
TooLate == << 116, 111, 111, 32, 108, 97, 116, 101 >>
PoolPositions == { << >>, << 1, 0 >>, << 0, 5, 1 >> }

\* well-formed payloads, payloads cut short, payloads with a trailing byte
TokenOkPayloads ==
    { EncAllocTokenOk(1, TokenA, 100, 1), EncAllocTokenOk(1, << >>, 0, 0) }
    \cup Cuts(EncAllocTokenOk(1, TokenA, 100, 1), {3})
JobOkPayloads ==
    { EncDeclJobOk(r, TokenC) : r \in PoolReqs }
    \cup { EncDeclJobOk(2, << >>), EncDeclJobOk(2, TokenC) \o << 0 >> }
    \cup Cuts(EncDeclJobOk(2, TokenC), {3})
JobErrPayloads ==
    { EncDeclJobErr(r, 3, TooLate) : r \in PoolReqs }
    \cup { EncDeclJobErr(2, 9, << 104, 255 >>) \o << 0 >> }
    \cup Cuts(EncDeclJobErr(2, 3, << >>), {4})
IdentifyPayloads ==
    { EncIdentifyTxs(2, ps) : ps \in PoolPositions }
    \cup { EncIdentifyTxs(r, << 0 >>) : r \in PoolReqs }
TxsOkPayloads == { EncProvideTxsOk(2) }

PoolMsgs ==
    { << ALLOC_TOKEN_OK, d >> : d \in TokenOkPayloads }
    \cup { << DECL_JOB_OK, d >> : d \in JobOkPayloads }
    \cup { << DECL_JOB_ERR, d >> : d \in JobErrPayloads }
    \cup { << IDENTIFY_TXS, d >> : d \in IdentifyPayloads }
    \cup { << PROVIDE_TXS_OK, d >> : d \in TxsOkPayloads }
    \cup { << 153, << >> >> }

\* lengths of the responder's handshake reply as one read returns it
ReplyLens == { 0, 100, 233, 234, 235 }

(***************************************************************************)
(* State.                                                                  *)
(***************************************************************************)
Fields ==
    [decl_state |-> decl_state, token |-> token, req_seq |-> req_seq,
     hash_nonce |-> hash_nonce, pending |-> pending,
     blk_height |-> blk_height, coinbase_val |-> coinbase_val]

EmptyMap == [r \in {} |-> 0]

\* nothing on the socket: in Spec every read returns one whole frame, which
\* ReadMsg hands over without the byte-level variables
NoWire == [frames |-> << >>, unread |-> << >>]

\* tx.subscribe() in main: nothing published yet
NoBus == [q |-> << >>, lagged |-> FALSE]

\* PoolClient::new, before run is polled
Init ==
    /\ pc = "connect"
    /\ addr_ok \in BOOLEAN
    /\ hs_state = "Init"
    /\ decl_state = NeedToken
    /\ token = None
    /\ req_seq = 0
    /\ hash_nonce \in Nonces
    /\ pending = EmptyMap
    /\ blk_height = 0
    /\ coinbase_val = 0
    /\ out = << >>
    /\ bus = NoBus
    /\ jobs_log = << >>
    /\ main_pc = "ui"
    /\ sent = {}
    /\ buf = << >>
    /\ wire = NoWire
    /\ got = << >>
    /\ emitted = << >>
    /\ last = [op |-> "new"]

SetFields(S) ==
    /\ decl_state' = S.decl_state
    /\ token' = S.token
    /\ req_seq' = S.req_seq
    /\ pending' = S.pending
    /\ blk_height' = S.blk_height
    /\ coinbase_val' = S.coinbase_val

\* run_protocol returned Err(e): run publishes Err(e.to_string()) and goes to
\* the sleep at the end of the loop body; the session's channel is dropped
\* with the frames still in it
SessionFails(evs, e) ==
    /\ emitted' = evs \o << EvMsg("Err", e) >>
    /\ out' = << >>
    /\ pc' = "backoff"

(***************************************************************************)
(* PoolClient::run: the reconnect loop.                                    *)
(***************************************************************************)
\* cfg.address does not parse: `?` returns the error from run
BadAddr ==
    /\ pc = "connect" /\ ~addr_ok
    /\ pc' = "returned"
    /\ emitted' = << >>
    /\ last' = [op |-> "bad_addr"]
    /\ UNCHANGED <<main_pc, jobs_log, bus, buf, wire, got, sent,
                   addr_ok, hs_state, decl_state, token, req_seq, hash_nonce,
                   pending, blk_height, coinbase_val, out>>

\* TcpStream::connect fails: PoolDown, sleep, continue
ConnectFail ==
    /\ pc = "connect" /\ addr_ok
    /\ emitted' = << Ev("PoolConnecting"), Ev("PoolDown") >>
    /\ pc' = "backoff"
    /\ last' = [op |-> "connect", ok |-> FALSE]
    /\ UNCHANGED <<main_pc, jobs_log, bus, buf, wire, got, sent,
                   addr_ok, hs_state, decl_state, token, req_seq, hash_nonce,
                   pending, blk_height, coinbase_val, out>>

\* a client that starts the protocol right after the TCP connect
ConnectOk_skips_handshake ==
    /\ pc = "connect" /\ addr_ok
    /\ hs_state' = "Connected"
    /\ emitted' = << Ev("PoolConnecting"), Ev("PoolUp") >>
    /\ pc' = "request_token"
    /\ last' = [op |-> "connect", ok |-> TRUE]
    /\ UNCHANGED <<main_pc, jobs_log, bus, buf, wire, got, sent,
                   addr_ok, decl_state, token, req_seq, hash_nonce,
                   pending, blk_height, coinbase_val, out>>

ConnectOk ==
    /\ pc = "connect" /\ addr_ok
    /\ hs_state' = "Connected"
    /\ emitted' = << Ev("PoolConnecting"), Ev("PoolUp") >>
    /\ pc' = "handshake"
    /\ last' = [op |-> "connect", ok |-> TRUE]
    /\ UNCHANGED <<main_pc, jobs_log, bus, buf, wire, got, sent,
                   addr_ok, decl_state, token, req_seq, hash_nonce,
                   pending, blk_height, coinbase_val, out>>

\* handshake() returned Err: HandshakeErr, hs_state = Init, sleep
HandshakeFails(evs, why) ==
    /\ emitted' = evs \o << EvMsg("HandshakeErr", why) >>
    /\ hs_state' = "Init"
    /\ pc' = "backoff"

\* handshake() that does not publish Handshaking
HandshakeSend_silent ==
    /\ pc = "handshake"
    /\ \E ok \in BOOLEAN :
          /\ IF ok
             THEN /\ hs_state' = "Sent"
                  /\ emitted' = << >>
                  /\ pc' = "hs_recv"
             ELSE HandshakeFails(<< >>, "send")
          /\ last' = [op |-> "handshake_send", ok |-> ok]
    /\ UNCHANGED <<main_pc, jobs_log, bus, buf, wire, got, sent,
                   addr_ok, decl_state, token, req_seq, hash_nonce,
                   pending, blk_height, coinbase_val, out>>

\* handshake(), up to the write of the first message
HandshakeSend ==
    /\ pc = "handshake"
    /\ \E ok \in BOOLEAN :
          /\ IF ok
             THEN /\ hs_state' = "Sent"
                  /\ emitted' = << Ev("Handshaking") >>
                  /\ pc' = "hs_recv"
             ELSE HandshakeFails(<< Ev("Handshaking") >>, "send")
          /\ last' = [op |-> "handshake_send", ok |-> ok]
    /\ UNCHANGED <<main_pc, jobs_log, bus, buf, wire, got, sent,
                   addr_ok, decl_state, token, req_seq, hash_nonce,
                   pending, blk_height, coinbase_val, out>>

\* handshake() without the test against EXPECTED_LEN
ReplyAccepted_any_length(n) == n # 0

\* whether a reply of n bytes passes the length tests of handshake()
ReplyAccepted(n) == n # 0 /\ ~(n < EXPECTED_LEN)

\* session entry that clears the token and keeps the declaration state
SessionEntry_keeps_decl_state ==
    /\ decl_state' = decl_state
    /\ token' = None

\* session entry in run: decl_state = NeedToken, token = None
SessionEntry ==
    /\ decl_state' = NeedToken
    /\ token' = None

\* handshake(), from the read of the reply on; on Ok run sets Done, publishes
\* HandshakeDone and resets decl_state and token; run_protocol creates the
\* outbound channel
HandshakeRecv ==
    /\ pc = "hs_recv"
    /\ \E n \in ReplyLens, read_ok \in BOOLEAN, step2_ok \in BOOLEAN :
          /\ IF read_ok /\ ReplyAccepted(n) /\ step2_ok
             THEN /\ hs_state' = "Done"
                  /\ emitted' = << Ev("HandshakeDone") >>
                  /\ SessionEntry
                  /\ out' = << >>
                  /\ sent' = {}
                  /\ pc' = "request_token"
             ELSE /\ HandshakeFails(<< >>,
                        IF ~read_ok THEN "recv"
                        ELSE IF n = 0 THEN "closed"
                        ELSE IF n < EXPECTED_LEN THEN "response too short"
                        ELSE "step2")
                  /\ UNCHANGED <<decl_state, token, out, sent>>
          /\ last' = [op |-> "handshake_recv", n |-> n,
                      ok |-> (read_ok /\ ReplyAccepted(n) /\ step2_ok)]
    /\ UNCHANGED <<main_pc, jobs_log, bus, buf, wire, got,
                   addr_ok, req_seq, hash_nonce, pending, blk_height,
                   coinbase_val>>

\* request_token: the AllocToken frame is encrypted and written directly;
\* room bounds the ids the model lets the client allocate.  run_protocol
\* creates the session's empty buf
\* request_token that moves to AwaitToken before it writes the frame
RequestTokenIf_state_before_write(room) ==
    /\ pc = "request_token"
    /\ room
    /\ LET rid == next_req(req_seq)
           frame == build_frame(ALLOC_TOKEN, DECL_EXT,
                        [req_id |-> rid, user |-> "sv2-jdc", min_nonce2 |-> MIN_NONCE2])
       IN  /\ req_seq' = rid
           /\ decl_state' = AwaitToken(rid)
           /\ \E res \in {"ok", "encrypt", "write"} :
                 /\ IF res = "ok"
                    THEN /\ emitted' = << >>
                         /\ pc' = "session"
                         /\ UNCHANGED out
                    ELSE SessionFails(<< >>, IF res = "encrypt" THEN FramingErr ELSE IoErr)
                 /\ last' = [op |-> "request_token", frame |-> frame, res |-> res]
    /\ buf' = << >>
    /\ UNCHANGED <<main_pc, jobs_log, bus, wire, got, sent,
                   addr_ok, hs_state, token, hash_nonce, pending, blk_height,
                   coinbase_val>>

RequestTokenIf(room) ==
    /\ pc = "request_token"
    /\ room
    /\ LET rid == next_req(req_seq)
           frame == build_frame(ALLOC_TOKEN, DECL_EXT,
                        [req_id |-> rid, user |-> "sv2-jdc", min_nonce2 |-> MIN_NONCE2])
       IN  /\ req_seq' = rid
           /\ \E res \in {"ok", "encrypt", "write"} :
                 /\ IF res = "ok"
                    THEN /\ decl_state' = AwaitToken(rid)
                         /\ emitted' = << >>
                         /\ pc' = "session"
                         /\ UNCHANGED out
                    ELSE /\ SessionFails(<< >>, IF res = "encrypt" THEN FramingErr ELSE IoErr)
                         /\ UNCHANGED decl_state
                 /\ last' = [op |-> "request_token", frame |-> frame, res |-> res]
    /\ buf' = << >>
    /\ UNCHANGED <<main_pc, jobs_log, bus, wire, got, sent,
                   addr_ok, hs_state, token, hash_nonce, pending, blk_height,
                   coinbase_val>>

RequestToken == RequestTokenIf(req_seq < MaxReq)

\* a run that returns after the sleep instead of looping
Backoff_returns ==
    /\ pc = "backoff"
    /\ pc' = "returned"
    /\ emitted' = << >>
    /\ last' = [op |-> "backoff"]
    /\ UNCHANGED <<main_pc, jobs_log, bus, buf, wire, got, sent,
                   addr_ok, hs_state, decl_state, token, req_seq, hash_nonce,
                   pending, blk_height, coinbase_val, out>>

\* the sleep at the end of the loop body (or after a failed connect)
Backoff ==
    /\ pc = "backoff"
    /\ pc' = "connect"
    /\ emitted' = << >>
    /\ last' = [op |-> "backoff"]
    /\ UNCHANGED <<main_pc, jobs_log, bus, buf, wire, got, sent,
                   addr_ok, hs_state, decl_state, token, req_seq, hash_nonce,
                   pending, blk_height, coinbase_val, out>>

(***************************************************************************)
(* run_protocol: the three arms of the select! of the session loop.        *)
(***************************************************************************)
\* a handler returned r: Ok(()) keeps the session, Err ends it
AfterHandler(r) ==
    /\ SetFields(r.st)
    /\ sent' = sent \cup { r.frames[i].msg.req_id :
                              i \in { j \in 1..Len(r.frames) :
                                          r.frames[j].mtype = DECL_JOB } }
    /\ IF r.err.kind = "none"
       THEN /\ out' = out \o r.frames
            /\ emitted' = r.evs
            /\ pc' = "session"
       ELSE SessionFails(r.evs, r.err)

\* a read failure reported like a failed connect
ReadFails_pool_down ==
    /\ pc = "session"
    /\ \E eof \in BOOLEAN :
          /\ SessionFails(<< Ev("PoolDown") >>,
                          IF eof THEN PoolClosedErr ELSE IoErr)
          /\ last' = [op |-> "read_fails", eof |-> eof]
    /\ UNCHANGED <<main_pc, jobs_log, bus, buf, wire, got, sent,
                   addr_ok, hs_state, decl_state, token, req_seq, hash_nonce,
                   pending, blk_height, coinbase_val>>

\* read_buf returns Ok(0) or Err
ReadFails ==
    /\ pc = "session"
    /\ \E eof \in BOOLEAN :
          /\ SessionFails(<< >>, IF eof THEN PoolClosedErr ELSE IoErr)
          /\ last' = [op |-> "read_fails", eof |-> eof]
    /\ UNCHANGED <<main_pc, jobs_log, bus, buf, wire, got, sent,
                   addr_ok, hs_state, decl_state, token, req_seq, hash_nonce,
                   pending, blk_height, coinbase_val>>

\* read_buf returns one whole frame, one of msgs: process_data decrypts the
\* payload (unless it is empty) and handle_msg dispatches it; cap bounds the
\* frames the model lets wait in the outbound channel
ReadMsgStep(msgs, cap) ==
    /\ pc = "session"
    /\ Len(out) < cap
    /\ \E m \in msgs, decrypt_ok \in BOOLEAN :
          /\ decrypt_ok \/ m[2] # << >>
          /\ IF decrypt_ok
             THEN AfterHandler(handle_msg(Fields, m[1], m[2]))
             ELSE /\ SessionFails(<< >>, FramingErr)
                  /\ UNCHANGED <<decl_state, token, req_seq, pending,
                                 blk_height, coinbase_val, sent>>
          /\ last' = IF decrypt_ok
                      THEN [op |-> "msg", decrypted |-> TRUE,
                            mtype |-> m[1], data |-> m[2]]
                      ELSE [op |-> "msg", decrypted |-> FALSE]
    /\ UNCHANGED <<bus, buf, wire, got, addr_ok, hs_state, hash_nonce>>

\* the read arm in a specification that keeps no log of the run
ReadMsgOf(msgs, cap) == ReadMsgStep(msgs, cap) /\ UNCHANGED <<main_pc, jobs_log>>

ReadMsg == ReadMsgOf(PoolMsgs, MaxOut)

\* a writer that takes the frame queued last
WriteOut_newest_first ==
    /\ pc = "session"
    /\ out # << >>
    /\ \E res \in {"ok", "encrypt", "write"} :
          /\ IF res = "ok"
             THEN /\ out' = SubSeq(out, 1, Len(out) - 1)
                  /\ emitted' = << >>
                  /\ pc' = "session"
             ELSE SessionFails(<< >>, IF res = "encrypt" THEN FramingErr ELSE IoErr)
          /\ last' = [op |-> "write", frame |-> out[Len(out)], res |-> res]
    /\ UNCHANGED <<main_pc, jobs_log, bus, buf, wire, got, sent,
                   addr_ok, hs_state, decl_state, token, req_seq, hash_nonce,
                   pending, blk_height, coinbase_val>>

\* out_rx.recv() yields a frame: encrypt and write_all
WriteOut ==
    /\ pc = "session"
    /\ out # << >>
    /\ \E res \in {"ok", "encrypt", "write"} :
          /\ IF res = "ok"
             THEN /\ out' = Tail(out)
                  /\ emitted' = << >>
                  /\ pc' = "session"
             ELSE SessionFails(<< >>, IF res = "encrypt" THEN FramingErr ELSE IoErr)
          /\ last' = [op |-> "write", frame |-> Head(out), res |-> res]
    /\ UNCHANGED <<main_pc, jobs_log, bus, buf, wire, got, sent,
                   addr_ok, hs_state, decl_state, token, req_seq, hash_nonce,
                   pending, blk_height, coinbase_val>>

\* bus_rx.recv() yields an event another task published, one of evs:
\* handle_event
BusRecvStep(evs, room, cap) ==
    /\ pc = "session"
    /\ Len(out) < cap
    /\ \E ev \in evs :
          /\ ev.type = "DeclareJob" => room
          /\ AfterHandler(handle_event(Fields, ev))
          /\ last' = [op |-> "event", ev |-> ev]
    /\ UNCHANGED <<bus, buf, wire, got, addr_ok, hs_state, hash_nonce>>

\* the bus arm in a specification that keeps no log of the run
BusRecvOf(evs, room, cap) == BusRecvStep(evs, room, cap) /\ UNCHANGED <<main_pc, jobs_log>>

BusRecv == BusRecvOf(BusEvents, req_seq < MaxReq, MaxOut)

Next ==
    \/ BadAddr
    \/ ConnectFail
    \/ ConnectOk
    \/ HandshakeSend
    \/ HandshakeRecv
    \/ RequestToken
    \/ Backoff
    \/ ReadFails
    \/ ReadMsg
    \/ WriteOut
    \/ BusRecv

Spec == Init /\ [][Next]_vars

(***************************************************************************)
(* The run with no bound on the ids allocated, so that req_seq wraps; the  *)
(* pool grants tokens and answers no declaration.                          *)
(***************************************************************************)
WrapMsgs == { << ALLOC_TOKEN_OK, EncAllocTokenOk(1, TokenA, 100, 1) >> }
WrapEvents == { DeclareJobEv(1, << >>, << Tx0 >>), Ev("NodeUp") }

RequestTokenWrap == RequestTokenIf(TRUE)
ReadMsgWrap == ReadMsgOf(WrapMsgs, MaxOut)
BusRecvWrap == BusRecvOf(WrapEvents, TRUE, MaxOut)

NextWrap ==
    \/ BadAddr
    \/ ConnectFail
    \/ ConnectOk
    \/ HandshakeSend
    \/ HandshakeRecv
    \/ RequestTokenWrap
    \/ Backoff
    \/ ReadFails
    \/ ReadMsgWrap
    \/ WriteOut
    \/ BusRecvWrap

SpecWrap == Init /\ [][NextWrap]_vars

(***************************************************************************)
(* The run with room for one more frame in the outbound channel and a pool *)
(* that grants a token, asks for transactions and accepts declarations.   *)
(***************************************************************************)
QueueMsgs ==
    { << ALLOC_TOKEN_OK, EncAllocTokenOk(1, TokenA, 100, 1) >>,
      << DECL_JOB_OK, EncDeclJobOk(2, << >>) >> }
    \cup { << IDENTIFY_TXS, EncIdentifyTxs(r, << 0 >>) >> : r \in PoolReqs }
QueueEvents == { DeclareJobEv(1, << >>, << Tx0 >>), Ev("Shutdown") }

ReadMsgQueue == ReadMsgOf(QueueMsgs, MaxOut + 1)
BusRecvQueue == BusRecvOf(QueueEvents, req_seq < MaxReq, MaxOut + 1)

NextQueue ==
    \/ BadAddr
    \/ ConnectFail
    \/ ConnectOk
    \/ HandshakeSend
    \/ HandshakeRecv
    \/ RequestToken
    \/ Backoff
    \/ ReadFails
    \/ ReadMsgQueue
    \/ WriteOut
    \/ BusRecvQueue

SpecQueue == Init /\ [][NextQueue]_vars

(***************************************************************************)
(* The run under fair scheduling of the client task: a step the task can   *)
(* take (the sleep ends, connect returns, the handshake reply or an error  *)
(* arrives) is eventually taken.  The pool sends a token, a payload cut    *)
(* short and an IdentifyTxs.                                               *)
(***************************************************************************)
LiveMsgs ==
    { << ALLOC_TOKEN_OK, EncAllocTokenOk(1, TokenA, 100, 1) >>,
      << ALLOC_TOKEN_OK, SubSeq(EncAllocTokenOk(1, TokenA, 100, 1), 1, 3) >> }
    \cup { << IDENTIFY_TXS, EncIdentifyTxs(r, << 0 >>) >> : r \in PoolReqs }
LiveEvents == { DeclareJobEv(1, << >>, << Tx0 >>), Ev("Shutdown") }

ReadMsgLive == ReadMsgOf(LiveMsgs, MaxOut)
BusRecvLive == BusRecvOf(LiveEvents, req_seq < MaxReq, MaxOut)

NextLive ==
    \/ BadAddr
    \/ ConnectFail
    \/ ConnectOk
    \/ HandshakeSend
    \/ HandshakeRecv
    \/ RequestToken
    \/ Backoff
    \/ ReadFails
    \/ ReadMsgLive
    \/ WriteOut
    \/ BusRecvLive

SpecLive == Init /\ [][NextLive]_vars /\ WF_vars(NextLive)

(***************************************************************************)
(* build_frame on its own.  Short payloads are given byte by byte; of a    *)
(* long payload only the length is given, and only the six bytes before    *)
(* the payload are computed.                                               *)
(***************************************************************************)
FrameTypes == { ALLOC_TOKEN, PROVIDE_TXS_OK, 255 }
FrameExts == { 0, DECL_EXT, 32770, 65535 }
FramePayloads == { << >>, << 1, 2, 3 >>, << 0 >>, TooLate }
FrameLens == { 255, 256, 65535, 65536, 16777215 }

InitFrame ==
    /\ pc = "build_frame"
    /\ addr_ok = TRUE
    /\ hs_state = "Init"
    /\ decl_state = NeedToken
    /\ token = None
    /\ req_seq = 0
    /\ hash_nonce \in Nonces
    /\ pending = EmptyMap
    /\ blk_height = 0
    /\ coinbase_val = 0
    /\ out = << >>
    /\ bus = NoBus
    /\ jobs_log = << >>
    /\ main_pc = "ui"
    /\ sent = {}
    /\ buf = << >>
    /\ wire = NoWire
    /\ got = << >>
    /\ emitted = << >>
    /\ \E t \in FrameTypes, e \in FrameExts :
          \/ \E p \in FramePayloads :
                last = [op |-> "input", mtype |-> t, ext |-> e,
                        len |-> Len(p), payload |-> p, whole |-> TRUE]
          \/ \E n \in FrameLens :
                last = [op |-> "input", mtype |-> t, ext |-> e,
                        len |-> n, payload |-> << >>, whole |-> FALSE]

\* build_frame returned res for the input in last
Framed(res) ==
    /\ pc = "build_frame"
    /\ last.op = "input"
    /\ last' = [last EXCEPT !.op = "framed"] @@ [res |-> res]
    /\ pc' = "framed"
    /\ UNCHANGED <<main_pc, jobs_log, bus, addr_ok, hs_state, decl_state, token, req_seq,
                   hash_nonce, pending, blk_height, coinbase_val, out, sent,
                   buf, wire, got, emitted>>

\* build_frame on a payload given byte by byte
BuildFrame ==
    /\ last.whole
    /\ Framed(build_frame_bytes(last.mtype, last.ext, last.payload))

\* build_frame on a payload of last.len bytes: the bytes before the payload
BuildFrameLong ==
    /\ ~last.whole
    /\ Framed(frame_header(last.mtype, last.ext, last.len))

NextFrame ==
    \/ BuildFrame
    \/ BuildFrameLong

SpecFrame == InitFrame /\ [][NextFrame]_vars

(***************************************************************************)
(* encode_height on its own.  The height is a u64; it is kept as its eight *)
(* little-endian bytes, so that heights of 2^32 and more can be given.     *)
(***************************************************************************)
\* the u64 n (below 2^31) as eight little-endian bytes
U64LE(n) == U32LE(n) \o << 0, 0, 0, 0 >>

\* tests against 0xFF, 0xFFFF, 0xFFFFFF
HeightAtMost_unsigned(h, k) == \A i \in (k + 1)..8 : h[i] = 0

\* h <= 2^(8k-1) - 1, the tests h <= 0x7F, 0x7FFF, 0x7FFFFF of encode_height
HeightAtMost(h, k) == (\A i \in (k + 1)..8 : h[i] = 0) /\ h[k] <= 127

encode_height(h) ==
    IF \A i \in 1..8 : h[i] = 0 THEN << 0 >>
    ELSE IF HeightAtMost(h, 1) THEN << 1, h[1] >>
    ELSE IF HeightAtMost(h, 2) THEN << 2, h[1], h[2] >>
    ELSE IF HeightAtMost(h, 3) THEN << 3, h[1], h[2], h[3] >>
    ELSE << 4, h[1], h[2], h[3], h[4] >>

Heights ==
    { U64LE(n) : n \in 0..40 }
    \cup { U64LE(n) : n \in { 127, 128, 255, 256, 32767, 32768, 65535, 65536,
                               840000, 8388607, 8388608, 16777216, 2147483647 } }
    \cup { << 0, 0, 0, 128, 0, 0, 0, 0 >>, << 255, 255, 255, 255, 0, 0, 0, 0 >>,
           << 0, 0, 0, 0, 1, 0, 0, 0 >>, << 64, 209, 12, 0, 1, 0, 0, 0 >> }

InitHeight ==
    /\ pc = "encode_height"
    /\ addr_ok = TRUE
    /\ hs_state = "Init"
    /\ decl_state = NeedToken
    /\ token = None
    /\ req_seq = 0
    /\ hash_nonce \in Nonces
    /\ pending = EmptyMap
    /\ blk_height = 0
    /\ coinbase_val = 0
    /\ out = << >>
    /\ bus = NoBus
    /\ jobs_log = << >>
    /\ main_pc = "ui"
    /\ sent = {}
    /\ buf = << >>
    /\ wire = NoWire
    /\ got = << >>
    /\ emitted = << >>
    /\ \E h \in Heights : last = [op |-> "input", h |-> h]

EncodeHeight ==
    /\ pc = "encode_height"
    /\ last.op = "input"
    /\ last' = [op |-> "encoded", h |-> last.h, res |-> encode_height(last.h)]
    /\ pc' = "encoded"
    /\ UNCHANGED <<main_pc, jobs_log, bus, addr_ok, hs_state, decl_state, token, req_seq,
                   hash_nonce, pending, blk_height, coinbase_val, out, sent,
                   buf, wire, got, emitted>>

NextHeight == EncodeHeight

SpecHeight == InitHeight /\ [][NextHeight]_vars

(***************************************************************************)
(* The outbound serializers on their own, on byte strings: a result is     *)
(* [ok |-> TRUE, bytes |-> ...] or [ok |-> FALSE, err |-> reason], the      *)
(* reason being that of Sv2Error::Serialization.  The caller builds a      *)
(* frame from an Ok result and returns the error otherwise.                *)
(***************************************************************************)
\* AllocToken::serialize that pushes the length byte without the test
AllocToken_serialize_unchecked(m) ==
    [ok |-> TRUE,
     bytes |-> U32LE(m.req_id) \o << Len(m.user) % 256 >> \o m.user
                 \o U16LE(m.min_nonce2)]

AllocToken_serialize(m) ==
    IF Len(m.user) > 255 THEN ParseErr("user too long")
    ELSE [ok |-> TRUE,
          bytes |-> U32LE(m.req_id) \o << Len(m.user) >> \o m.user
                      \o U16LE(m.min_nonce2)]

RECURSIVE Flat(_)
Flat(ss) == IF ss = << >> THEN << >> ELSE Head(ss) \o Flat(Tail(ss))

\* hash_nonce, the short hashes and tx_list_hash are given as their bytes
DeclJob_serialize(m) ==
    IF Len(m.token) > 255 THEN ParseErr("token too long")
    ELSE [ok |-> TRUE,
          bytes |-> U32LE(m.req_id) \o << Len(m.token) >> \o m.token
                      \o U32LE(m.version)
                      \o U16LE(Len(m.cb_prefix) % 65536) \o m.cb_prefix
                      \o U16LE(Len(m.cb_suffix) % 65536) \o m.cb_suffix
                      \o m.hash_nonce
                      \o U16LE(Len(m.short_hashes) % 65536) \o Flat(m.short_hashes)
                      \o m.tx_list_hash
                      \o U16LE(Len(m.extra) % 65536) \o m.extra]

\* `let payload = msg.serialize()?; let frame = build_frame(..)`: the frames
\* the caller goes on with
FramesOf(mtype, res) ==
    IF res.ok THEN << build_frame_bytes(mtype, DECL_EXT, res.bytes) >> ELSE << >>

\* n bytes 'a'
Filler(n) == [i \in 1..n |-> 97]
Sv2Jdc == << 115, 118, 50, 45, 106, 100, 99 >>

AllocTokens ==
    [req_id : { 0, 1, 258, 2147483647 },
     user : { << >>, Sv2Jdc, << 109, 105, 110, 101, 114 >>,
              Filler(255), Filler(256), Filler(300) },
     min_nonce2 : { 0, MIN_NONCE2, 256, 65535 }]

DeclJobs ==
    [req_id : { 2, 258 },
     token : { << >>, TokenA, Filler(255), Filler(256) },
     version : { BLK_VERSION },
     cb_prefix : { << 1, 0, 0, 0 >> },
     cb_suffix : { << 255 >> },
     hash_nonce : { << 7, 0, 0, 0, 0, 0, 0, 0 >> },
     short_hashes : { << >>, << << 9, 8, 7, 6, 5, 4, 3, 2 >> >> },
     tx_list_hash : { [i \in 1..32 |-> i] },
     extra : { << >> }]

InitSerialize ==
    /\ pc = "serialize"
    /\ addr_ok = TRUE
    /\ hs_state = "Init"
    /\ decl_state = NeedToken
    /\ token = None
    /\ req_seq = 0
    /\ hash_nonce \in Nonces
    /\ pending = EmptyMap
    /\ blk_height = 0
    /\ coinbase_val = 0
    /\ out = << >>
    /\ bus = NoBus
    /\ jobs_log = << >>
    /\ main_pc = "ui"
    /\ sent = {}
    /\ buf = << >>
    /\ wire = NoWire
    /\ got = << >>
    /\ emitted = << >>
    /\ \/ \E m \in AllocTokens : last = [op |-> "input", mtype |-> ALLOC_TOKEN, m |-> m]
       \/ \E m \in DeclJobs : last = [op |-> "input", mtype |-> DECL_JOB, m |-> m]

\* the serializer of message type t returned res
Serialized(t, res) ==
    /\ pc = "serialize"
    /\ last.op = "input"
    /\ last.mtype = t
    /\ last' = [op |-> "serialized", mtype |-> t, m |-> last.m, res |-> res,
                frames |-> FramesOf(t, res)]
    /\ pc' = "serialized"
    /\ UNCHANGED <<main_pc, jobs_log, bus, addr_ok, hs_state, decl_state, token, req_seq,
                   hash_nonce, pending, blk_height, coinbase_val, out, sent,
                   buf, wire, got, emitted>>

SerializeAllocToken == Serialized(ALLOC_TOKEN, AllocToken_serialize(last.m))
SerializeDeclJob == Serialized(DECL_JOB, DeclJob_serialize(last.m))

NextSerialize ==
    \/ SerializeAllocToken
    \/ SerializeDeclJob

SpecSerialize == InitSerialize /\ [][NextSerialize]_vars

(***************************************************************************)
(* The run with a pool that, besides granting tokens, sends frames of      *)
(* types the client has no handler for: the types of the client's own      *)
(* messages, 0x00, 0x99 and 0xFF, with and without a payload.              *)
(***************************************************************************)
OtherTypes == { ALLOC_TOKEN, DECL_JOB, PROVIDE_TXS, 0, 153, 255 }
OtherMsgs ==
    { << ALLOC_TOKEN_OK, EncAllocTokenOk(1, TokenA, 100, 1) >> }
    \cup { << t, d >> : t \in OtherTypes, d \in { << >>, EncDeclJobOk(2, TokenC) } }
OtherEvents == { DeclareJobEv(1, << >>, << Tx0 >>), Ev("NodeUp") }

ReadMsgOther == ReadMsgOf(OtherMsgs, MaxOut + 1)
BusRecvOther == BusRecvOf(OtherEvents, req_seq < MaxReq, MaxOut + 1)

NextOther ==
    \/ BadAddr
    \/ ConnectFail
    \/ ConnectOk
    \/ HandshakeSend
    \/ HandshakeRecv
    \/ RequestToken
    \/ Backoff
    \/ ReadFails
    \/ ReadMsgOther
    \/ WriteOut
    \/ BusRecvOther

SpecOther == Init /\ [][NextOther]_vars

(***************************************************************************)
(* The run with a log of the job events the client publishes.  The pool    *)
(* answers any request id, asked or not, with success or with an error, as *)
(* often as it likes; the same template may be declared again; sessions    *)
(* end and start over, and pending outlives them.                          *)
(***************************************************************************)
IsJobEvent(e) == e.type \in {"JobSent", "JobOk", "JobFailed"}
\* what a step that published evs adds to the log
LogOf(evs) ==
    LET js == SelectSeq(evs, IsJobEvent)
    IN  [i \in 1..Len(js) |-> [type |-> js[i].type, tpl_id |-> js[i].tpl_id]]
\* the events of the log's first n entries that are of type ty for tpl
Logged(n, ty, tpl) ==
    { i \in 1..n : jobs_log[i].type \in ty /\ jobs_log[i].tpl_id = tpl }

JobMsgs ==
    { << ALLOC_TOKEN_OK, EncAllocTokenOk(1, TokenA, 100, 1) >> }
    \cup { << DECL_JOB_OK, EncDeclJobOk(r, TokenC) >> : r \in 1..MaxReq }
    \cup { << DECL_JOB_ERR, EncDeclJobErr(r, 3, << >>) >> : r \in PoolReqs }
JobEvents == { DeclareJobEv(1, << >>, << Tx0 >>), DeclareJobEv(MaxTpl, << >>, << >>) }

RequestTokenJobs == RequestTokenIf(req_seq < MaxReq)
ReadMsgJobs ==
    /\ ReadMsgStep(JobMsgs, MaxOut)
    /\ jobs_log' = jobs_log \o LogOf(emitted')
    /\ UNCHANGED main_pc
BusRecvJobs ==
    /\ BusRecvStep(JobEvents, req_seq < MaxReq, MaxOut)
    /\ jobs_log' = jobs_log \o LogOf(emitted')
    /\ UNCHANGED main_pc

NextJobs ==
    \/ ConnectFail
    \/ ConnectOk
    \/ HandshakeSend
    \/ HandshakeRecv
    \/ RequestTokenJobs
    \/ Backoff
    \/ ReadFails
    \/ ReadMsgJobs
    \/ WriteOut
    \/ BusRecvJobs

InitJobs == Init /\ addr_ok

SpecJobs == InitJobs /\ [][NextJobs]_vars

(***************************************************************************)
(* handle_event's NewTemplate arm at the width of its fields: fees and     *)
(* coinbase_val are u64, given as eight little-endian bytes.  The `+` of   *)
(* `fees + 312500000` panics on overflow when the build has overflow       *)
(* checks (the dev profile) and wraps when it has not (the release         *)
(* profile); the repository pins neither.                                  *)
(***************************************************************************)
\* the carry into byte i of a + b
RECURSIVE CarryInto(_, _, _)
CarryInto(a, b, i) ==
    IF i = 1 THEN 0 ELSE (a[i - 1] + b[i - 1] + CarryInto(a, b, i - 1)) \div 256

\* a + b of two u64: the eight low bytes and the carry out of the top byte
Add64(a, b) ==
    [low |-> [i \in 1..8 |-> (a[i] + b[i] + CarryInto(a, b, i)) % 256],
     carry |-> CarryInto(a, b, 9)]

\* `fees + 312500000` under a build with or without overflow checks
coinbase_add(fees, overflow_checks) ==
    LET s == Add64(fees, U64LE(SUBSIDY))
    IN  IF s.carry = 1 /\ overflow_checks
        THEN [panic |-> TRUE, val |-> << >>]
        ELSE [panic |-> FALSE, val |-> s.low]

\* 0, 1000, 2^31 - 1, 2^32, every satoshi there will ever be, the largest fees
\* the addition has room for, one more, and u64::MAX
Fees64 ==
    { U64LE(0), U64LE(1000), U64LE(2147483647),
      << 0, 0, 0, 0, 1, 0, 0, 0 >>,
      << 0, 64, 7, 90, 240, 117, 7, 0 >>,
      << 223, 160, 95, 237, 255, 255, 255, 255 >>,
      << 224, 160, 95, 237, 255, 255, 255, 255 >>,
      << 255, 255, 255, 255, 255, 255, 255, 255 >> }
TplHeights == { 0, 840000, 840001 }

\* a session that holds a token, with or without a declaration in flight
InitCoinbase ==
    /\ pc = "session"
    /\ addr_ok = TRUE
    /\ hs_state = "Done"
    /\ decl_state \in { Ready, Pending(2) }
    /\ token = Some(TokenA)
    /\ req_seq = 2
    /\ hash_nonce \in Nonces
    /\ pending = EmptyMap
    /\ blk_height = 0
    /\ coinbase_val = U64LE(0)
    /\ out = << >>
    /\ bus = NoBus
    /\ jobs_log = << >>
    /\ main_pc = "ui"
    /\ sent = {}
    /\ buf = << >>
    /\ wire = NoWire
    /\ got = << >>
    /\ emitted = << >>
    /\ last = [op |-> "new"]

\* the bus arm yields NewTemplate{height, fees, ..} and the addition returns
TemplateHandled ==
    /\ pc = "session"
    /\ \E h \in TplHeights, f \in Fees64, overflow_checks \in BOOLEAN :
          LET r == coinbase_add(f, overflow_checks) IN
          /\ ~r.panic
          /\ blk_height' = h
          /\ coinbase_val' = r.val
          /\ last' = [op |-> "template", height |-> h, fees |-> f]
    /\ emitted' = << >>
    /\ UNCHANGED <<main_pc, jobs_log, pc, bus, addr_ok, hs_state, decl_state, token, req_seq,
                   hash_nonce, pending, out, sent, buf, wire, got>>

\* the bus arm yields NewTemplate{height, fees, ..} and the addition panics:
\* blk_height is already assigned, the client's task unwinds
TemplatePanics ==
    /\ pc = "session"
    /\ \E h \in TplHeights, f \in Fees64, overflow_checks \in BOOLEAN :
          /\ coinbase_add(f, overflow_checks).panic
          /\ blk_height' = h
          /\ last' = [op |-> "template", height |-> h, fees |-> f]
    /\ pc' = "panicked"
    /\ emitted' = << >>
    /\ UNCHANGED <<main_pc, jobs_log, bus, addr_ok, hs_state, decl_state, token, req_seq,
                   hash_nonce, pending, coinbase_val, out, sent, buf, wire,
                   got>>

NextCoinbase ==
    \/ TemplateHandled
    \/ TemplatePanics

SpecCoinbase == InitCoinbase /\ [][NextCoinbase]_vars

(***************************************************************************)
(* The inbound parsers on their own: a payload of the wire format, cut     *)
(* after any number of bytes, is handed to the parser of its message type. *)
(***************************************************************************)
\* well-formed payloads of each inbound message type
WholePayloads ==
    { << ALLOC_TOKEN_OK, EncAllocTokenOk(1, TokenA, 100, 1) >>,
      << ALLOC_TOKEN_OK, EncAllocTokenOk(1, << >>, 0, 0) >>,
      << DECL_JOB_OK, EncDeclJobOk(2, TokenA) >>,
      << DECL_JOB_OK, EncDeclJobOk(3, TokenC) >>,
      << DECL_JOB_OK, EncDeclJobOk(2, << >>) >>,
      << DECL_JOB_ERR, EncDeclJobErr(2, 3, TooLate) >>,
      << DECL_JOB_ERR, EncDeclJobErr(2, 9, << >>) >>,
      << PROVIDE_TXS_OK, EncProvideTxsOk(2) >> }
    \cup { << IDENTIFY_TXS, EncIdentifyTxs(2, ps) >> : ps \in PoolPositions }

\* a parser's input: the first k bytes of a well-formed payload
ParseInput(w, k) ==
    [op |-> "input", mtype |-> w[1], whole |-> w[2], data |-> SubSeq(w[2], 1, k)]

InitParse ==
    /\ pc = "parse"
    /\ addr_ok = TRUE
    /\ hs_state = "Init"
    /\ decl_state = NeedToken
    /\ token = None
    /\ req_seq = 0
    /\ hash_nonce \in Nonces
    /\ pending = EmptyMap
    /\ blk_height = 0
    /\ coinbase_val = 0
    /\ out = << >>
    /\ bus = NoBus
    /\ jobs_log = << >>
    /\ main_pc = "ui"
    /\ sent = {}
    /\ buf = << >>
    /\ wire = NoWire
    /\ got = << >>
    /\ emitted = << >>
    /\ \E w \in WholePayloads : \E k \in 0..Len(w[2]) : last = ParseInput(w, k)

\* the parser of message type t runs on the input and its result is kept
Parsed(t, res) ==
    /\ pc = "parse"
    /\ last.op = "input"
    /\ last.mtype = t
    /\ last' = [op |-> "parsed", mtype |-> t, whole |-> last.whole,
                data |-> last.data, res |-> res]
    /\ pc' = "parsed"
    /\ UNCHANGED <<main_pc, jobs_log, bus, addr_ok, hs_state, decl_state, token, req_seq, hash_nonce,
                   pending, blk_height, coinbase_val, out, sent, buf, wire,
                   got, emitted>>

ParseAllocTokenOk == Parsed(ALLOC_TOKEN_OK, AllocTokenOk_parse(last.data))
ParseDeclJobOk == Parsed(DECL_JOB_OK, DeclJobOk_parse(last.data))
ParseDeclJobErr == Parsed(DECL_JOB_ERR, DeclJobErr_parse(last.data))
ParseIdentifyTxs == Parsed(IDENTIFY_TXS, IdentifyTxs_parse(last.data))
ParseProvideTxsOk == Parsed(PROVIDE_TXS_OK, ProvideTxsOk_parse(last.data))

NextParse ==
    \/ ParseAllocTokenOk
    \/ ParseDeclJobOk
    \/ ParseDeclJobErr
    \/ ParseIdentifyTxs
    \/ ParseProvideTxsOk

SpecParse == InitParse /\ [][NextParse]_vars

(***************************************************************************)
(* One session read byte by byte: the pool has written a few frames and    *)
(* read_buf returns them in pieces of any size.                            *)
(***************************************************************************)
\* frames in a stream
MaxStream == 3

\* a frame of the pool: its type, its payload, and whether it was sealed
\* with the session's key
WireFrame(mtype, plain, good) == [mtype |-> mtype, plain |-> plain, good |-> good]

WireFrames ==
    { WireFrame(ALLOC_TOKEN_OK, EncAllocTokenOk(1, TokenC, 0, 1), TRUE),
      WireFrame(ALLOC_TOKEN_OK, EncAllocTokenOk(1, TokenC, 0, 1), FALSE),
      WireFrame(DECL_JOB_OK, EncDeclJobOk(2, << >>), TRUE),
      WireFrame(IDENTIFY_TXS, EncIdentifyTxs(2, << 0 >>), TRUE),
      WireFrame(153, << >>, TRUE) }

\* the bytes of a frame on the socket: plain header, sealed payload (an empty
\* payload is sent as it is)
FrameBytes(f) ==
    LET sealed == IF f.plain = << >> THEN << >>
                  ELSE IF f.good THEN codec_seal(f.plain)
                  ELSE codec_seal(f.plain) \o << 0 >>
    IN  build_frame_bytes(f.mtype, DECL_EXT, sealed)

RECURSIVE StreamBytes(_)
StreamBytes(fs) ==
    IF fs = << >> THEN << >> ELSE FrameBytes(Head(fs)) \o StreamBytes(Tail(fs))

Streams == UNION { [1..n -> WireFrames] : n \in 1..MaxStream }

\* the first session of the run, right after request_token
InitReader ==
    /\ pc = "session"
    /\ addr_ok = TRUE
    /\ hs_state = "Done"
    /\ decl_state = AwaitToken(1)
    /\ token = None
    /\ req_seq = 1
    /\ hash_nonce \in Nonces
    /\ pending = EmptyMap
    /\ blk_height = 0
    /\ coinbase_val = 0
    /\ out = << >>
    /\ bus = NoBus
    /\ jobs_log = << >>
    /\ main_pc = "ui"
    /\ sent = {}
    /\ buf = << >>
    /\ \E fs \in Streams : wire = [frames |-> fs, unread |-> StreamBytes(fs)]
    /\ got = << >>
    /\ emitted = << >>
    /\ last = [op |-> "request_token",
               frame |-> build_frame(ALLOC_TOKEN, DECL_EXT,
                            [req_id |-> 1, user |-> "sv2-jdc",
                             min_nonce2 |-> MIN_NONCE2]),
               res |-> "ok"]

\* read_buf appends n bytes to buf and process_data runs on it
ReadBytes ==
    /\ pc = "session"
    /\ \E n \in 1..Len(wire.unread) :
          LET r == process_data(Fields, buf \o SubSeq(wire.unread, 1, n))
          IN  /\ AfterHandler(r)
              /\ buf' = r.buf
              /\ got' = got \o r.got
              /\ wire' = [wire EXCEPT !.unread = SubSeq(@, n + 1, Len(@))]
    /\ last' = [op |-> "read"]
    /\ UNCHANGED <<main_pc, jobs_log, bus, addr_ok, hs_state, hash_nonce>>

NextReader ==
    \/ ReadBytes
    \/ ReadFails

SpecReader == InitReader /\ [][NextReader]_vars

(***************************************************************************)
(* One session in which the pool answers a declaration with a burst of     *)
(* IdentifyTxs frames that arrive in one read.  process_data is taken one  *)
(* loop iteration at a time, and a handler's out_tx.send(frame).await      *)
(* completes only when the channel has room: until then the iteration      *)
(* cannot be taken, and the frame it handles stays at the head of buf.     *)
(* The writer arm of the select! runs only between two polls of the loop,  *)
(* that is at pc = "session".                                              *)
(***************************************************************************)
\* frames in one read
MaxBurst == 33

\* the fields after the session's AllocTokenOk and one DeclareJob
BurstStart(nonce) ==
    LET S0 == [decl_state |-> AwaitToken(1), token |-> None, req_seq |-> 1,
               hash_nonce |-> nonce, pending |-> EmptyMap,
               blk_height |-> 0, coinbase_val |-> 0]
        S1 == handle_msg(S0, ALLOC_TOKEN_OK, EncAllocTokenOk(1, TokenA, 100, 1)).st
    IN  handle_event(S1, DeclareJobEv(1, << >>, << Tx0 >>))

\* the session has written its DeclJob frame and waits for the pool
InitBurst ==
    /\ pc = "session"
    /\ addr_ok = TRUE
    /\ hs_state = "Done"
    /\ hash_nonce \in Nonces
    /\ LET r == BurstStart(hash_nonce)
       IN  /\ decl_state = r.st.decl_state
           /\ token = r.st.token
           /\ req_seq = r.st.req_seq
           /\ pending = r.st.pending
           /\ blk_height = r.st.blk_height
           /\ coinbase_val = r.st.coinbase_val
           /\ last = [op |-> "write", frame |-> r.frames[1], res |-> "ok"]
    /\ out = << >>
    /\ bus = NoBus
    /\ jobs_log = << >>
    /\ main_pc = "ui"
    /\ sent = {2}
    /\ buf = << >>
    /\ wire = NoWire
    /\ got = << >>
    /\ emitted = << >>

\* the IdentifyTxs frame of the burst, as the pool writes it
BurstFrame == WireFrame(IDENTIFY_TXS, EncIdentifyTxs(2, << 0 >>), TRUE)

\* read_buf returns k whole frames at once and process_data is called
ReadBurst ==
    /\ pc = "session"
    /\ \E k \in 1..MaxBurst :
          buf' = buf \o StreamBytes([i \in 1..k |-> BurstFrame])
    /\ pc' = "process"
    /\ emitted' = << >>
    /\ last' = [op |-> "read"]
    /\ UNCHANGED <<main_pc, jobs_log, bus, addr_ok, hs_state, decl_state, token, req_seq, hash_nonce,
                   pending, blk_height, coinbase_val, out, sent, wire, got>>

\* one iteration of the loop of process_data; without a whole frame in buf
\* process_data returns and the select! loop is polled again
ProcessFrame ==
    /\ pc = "process"
    /\ IF ~HasFrame(buf)
       THEN /\ pc' = "session"
            /\ emitted' = << >>
            /\ last' = [op |-> "processed"]
            /\ UNCHANGED <<decl_state, token, req_seq, pending, blk_height,
                           coinbase_val, out, sent, buf, got>>
       ELSE LET total == HDR + U24At(buf, 3)
                mtype == At(buf, 2)
                dec == IF total > HDR THEN codec_decrypt(Slice(buf, HDR, total))
                                      ELSE [ok |-> TRUE, data |-> << >>]
            IN  /\ buf' = Slice(buf, total, Len(buf))
                /\ IF ~dec.ok
                   THEN /\ SessionFails(<< >>, FramingErr)
                        /\ last' = [op |-> "msg", decrypted |-> FALSE]
                        /\ UNCHANGED <<decl_state, token, req_seq, pending,
                                       blk_height, coinbase_val, sent, got>>
                   ELSE LET r == handle_msg(Fields, mtype, dec.data)
                        IN  /\ Len(out) + Len(r.frames) <= OUT_CAP
                            /\ SetFields(r.st)
                            /\ UNCHANGED <<sent, got>>
                            /\ IF r.err.kind = "none"
                               THEN /\ out' = out \o r.frames
                                    /\ emitted' = r.evs
                                    /\ pc' = "process"
                               ELSE SessionFails(r.evs, r.err)
                            /\ last' = [op |-> "msg", decrypted |-> TRUE,
                                        mtype |-> mtype, data |-> dec.data]
    /\ UNCHANGED <<main_pc, jobs_log, bus, addr_ok, hs_state, hash_nonce, wire>>

NextBurst ==
    \/ ReadBurst
    \/ ProcessFrame
    \/ WriteOut
    \/ ReadFails

SpecBurst == InitBurst /\ [][NextBurst]_vars

(***************************************************************************)
(* The run with the client's broadcast receiver: other tasks publish at    *)
(* any time, the receiver keeps the newest BusCap events it has not        *)
(* received, and the client calls bus_rx.recv() only in the select! of     *)
(* run_protocol.  The events the client publishes itself, which its        *)
(* handle_event ignores, are left out of the queue.                        *)
(***************************************************************************)
\* events the receiver retains (broadcast::channel(100) in main)
BusCap == 2

\* events the node task and the dashboard publish
BusPublished ==
    { NewTemplateEv(840000, 2, 1000), NewTemplateEv(840001, 0, 0), Ev("NodeUp") }
BusMsgs == { << ALLOC_TOKEN_OK, EncAllocTokenOk(1, TokenA, 100, 1) >> }

\* bus_tx.send(e) in another task: never blocks; a full receiver loses its
\* oldest event and is marked as lagging
Publish ==
    /\ pc # "returned"
    /\ \E e \in BusPublished :
          bus' = IF Len(bus.q) < BusCap
                 THEN [bus EXCEPT !.q = Append(@, e)]
                 ELSE [q |-> Append(Tail(bus.q), e), lagged |-> TRUE]
    /\ UNCHANGED <<main_pc, jobs_log, pc, addr_ok, hs_state, decl_state, token, req_seq,
                   hash_nonce, pending, blk_height, coinbase_val, out, sent,
                   buf, wire, got, emitted, last>>

\* a Lagged that ends the session like an error of a handler
BusLagged_ends_session ==
    /\ pc = "session"
    /\ bus.lagged
    /\ last.op # "lagged"
    /\ bus' = [bus EXCEPT !.lagged = FALSE]
    /\ SessionFails(<< >>, IoErr)
    /\ last' = [op |-> "lagged"]
    /\ UNCHANGED <<main_pc, jobs_log, addr_ok, hs_state, decl_state, token, req_seq, hash_nonce,
                   pending, blk_height, coinbase_val, sent, buf, wire, got>>

\* bus_rx.recv() returns Err(Lagged): the receiver moves to the oldest event
\* retained; the pattern Ok(ev) does not match, so the arm is disabled until
\* another arm of this select! completes (last.op tells that it has not)
BusLagged ==
    /\ pc = "session"
    /\ bus.lagged
    /\ last.op # "lagged"
    /\ bus' = [bus EXCEPT !.lagged = FALSE]
    /\ emitted' = << >>
    /\ last' = [op |-> "lagged"]
    /\ UNCHANGED <<main_pc, jobs_log, pc, addr_ok, hs_state, decl_state, token, req_seq,
                   hash_nonce, pending, blk_height, coinbase_val, out, sent,
                   buf, wire, got>>

\* bus_rx.recv() returns Ok(ev), the oldest event retained: handle_event
BusRecvQ ==
    /\ pc = "session"
    /\ ~bus.lagged
    /\ bus.q # << >>
    /\ last.op # "lagged"
    /\ AfterHandler(handle_event(Fields, Head(bus.q)))
    /\ bus' = [bus EXCEPT !.q = Tail(@)]
    /\ last' = [op |-> "event", ev |-> Head(bus.q)]
    /\ UNCHANGED <<main_pc, jobs_log, buf, wire, got, addr_ok, hs_state,
                   hash_nonce>>

ReadMsgBus == ReadMsgOf(BusMsgs, MaxOut)

NextBus ==
    \/ BadAddr
    \/ ConnectFail
    \/ ConnectOk
    \/ HandshakeSend
    \/ HandshakeRecv
    \/ RequestToken
    \/ Backoff
    \/ ReadFails
    \/ ReadMsgBus
    \/ Publish
    \/ BusLagged
    \/ BusRecvQ

SpecBus == Init /\ [][NextBus]_vars

(***************************************************************************)
(* The client and main's shutdown sequence.  When the UI exits, main sends *)
(* Shutdown on the bus and waits in a select! for the node task, the pool  *)
(* task or a sleep of five seconds, whichever completes first; then main   *)
(* returns, which ends the process and the client's task with it.          *)
(***************************************************************************)
\* ui_actor.run() returns; `let _ = tx.send(Event::Shutdown)`
UiExits ==
    /\ main_pc = "ui"
    /\ main_pc' = "waiting"
    /\ bus' = IF Len(bus.q) < BusCap
              THEN [bus EXCEPT !.q = Append(@, Ev("Shutdown"))]
              ELSE [q |-> Append(Tail(bus.q), Ev("Shutdown")), lagged |-> TRUE]
    /\ UNCHANGED <<jobs_log, pc, addr_ok, hs_state, decl_state, token, req_seq,
                   hash_nonce, pending, blk_height, coinbase_val, out, sent,
                   buf, wire, got, emitted, last>>

\* an arm of main's select! completes (a task's handle, or the sleep) and
\* main returns: the runtime is dropped and the client's task ends wherever
\* it is
MainReturns ==
    /\ main_pc = "waiting"
    /\ main_pc' = "returned"
    /\ pc' = "exited"
    /\ UNCHANGED <<jobs_log, bus, addr_ok, hs_state, decl_state, token,
                   req_seq, hash_nonce, pending, blk_height, coinbase_val, out,
                   sent, buf, wire, got, emitted, last>>

ReadMsgShutdown == ReadMsgOf(BusMsgs, MaxOut)

NextShutdown ==
    \/ BadAddr
    \/ ConnectFail
    \/ ConnectOk
    \/ HandshakeSend
    \/ HandshakeRecv
    \/ RequestToken
    \/ Backoff
    \/ ReadFails
    \/ ReadMsgShutdown
    \/ BusRecvQ
    \/ UiExits
    \/ MainReturns

\* the sleep of main's select! completes: main does return
SpecShutdown == Init /\ [][NextShutdown]_vars /\ WF_vars(MainReturns)

(***************************************************************************)
(* Properties.                                                             *)
(***************************************************************************)
\* the step dispatched a decrypted pool message of type t
Dispatched(t) == last'.op = "msg" /\ last'.decrypted /\ last'.mtype = t
\* the step handled a bus event of type t
Handled(t) == last'.op = "event" /\ last'.ev.type = t
\* no event of type t was published in the step
NonePublished(t) == \A i \in 1..Len(emitted') : emitted'[i].type # t

\* C1: a DeclareJob event handled while decl_state is not Ready, or while no
\* token is stored, queues no frame, inserts no pending entry, publishes no
\* JobSent and leaves decl_state, token and req_seq unchanged.
C1_DeclareJobIgnored ==
    [][ (Handled("DeclareJob") /\ (decl_state # Ready \/ ~token.some))
        => /\ out' = out
           /\ pending' = pending
           /\ NonePublished("JobSent")
           /\ decl_state' = decl_state
           /\ token' = token
           /\ req_seq' = req_seq ]_vars

\* a DeclareJob was handled in state Ready with no token stored (the pool
\* answered DeclJobOk before any AllocTokenOk)
C1_Witness ==
    /\ last.op = "event" /\ last.ev.type = "DeclareJob"
    /\ decl_state = Ready /\ ~token.some
    /\ pc = "session"

\* C2: after a well-formed AllocTokenOk is dispatched, in whatever declaration
\* state, decl_state is Ready, the stored token is the token of the message
\* and PoolUp has been published.
C2_TokenOkMakesReady ==
    [][ \A t \in { << >>, TokenA, TokenC }, mx \in {0, 100}, a \in {0, 1} :
          (Dispatched(ALLOC_TOKEN_OK) /\ last'.data = EncAllocTokenOk(1, t, mx, a))
          => /\ decl_state' = Ready
             /\ token' = Some(t)
             /\ \E i \in 1..Len(emitted') : emitted'[i] = Ev("PoolUp")
             /\ pc' = "session" ]_vars

\* AllocTokenOk with token AA BB was dispatched while a declaration was pending
C2_Witness ==
    /\ last.op = "msg" /\ last.decrypted /\ last.mtype = ALLOC_TOKEN_OK
    /\ last.data = EncAllocTokenOk(1, TokenA, 100, 1)
    /\ decl_state = Ready /\ token = Some(TokenA)
    /\ DOMAIN pending # {}

\* C3: DeclJobOk for a pending request id, encoded as
\* req_id(u32) | new_token_len(u8) | new_token with a non-empty new_token:
\* the stored token becomes new_token, pending[req] is removed,
\* JobOk{tpl_id of the entry, token = new_token} is published and decl_state
\* becomes Ready.
C3_JobOkReplacesToken ==
    [][ \A r \in PoolReqs :
          (Dispatched(DECL_JOB_OK) /\ last'.data = EncDeclJobOk(r, TokenC)
              /\ r \in DOMAIN pending)
          => /\ token' = Some(TokenC)
             /\ r \notin DOMAIN pending'
             /\ emitted' = << JobOk(pending[r].tpl_id, TokenC) >>
             /\ decl_state' = Ready ]_vars

\* C4: DeclJobErr for a pending request id, encoded as
\* req_id(u32) | code(u8) | details_len(u8) | details: pending[req] is
\* removed, JobFailed{tpl_id of the entry, reason = "<code>: <details>"} is
\* published with the details of the message ("Stale: too late" for code
\* Stale and details "too late"), and decl_state becomes Ready.
C4_JobErrReportsDetails ==
    [][ \A r \in PoolReqs :
          (Dispatched(DECL_JOB_ERR) /\ last'.data = EncDeclJobErr(r, 3, TooLate)
              /\ r \in DOMAIN pending)
          => /\ r \notin DOMAIN pending'
             /\ emitted' = << JobFailed(pending[r].tpl_id, "Stale", TooLate) >>
             /\ decl_state' = Ready ]_vars

\* the transactions at the listed positions that are in range, in the order
\* listed
TxsAt(txs, positions) ==
    LET good == SelectSeq(positions, LAMBDA q : q < Len(txs))
    IN  [i \in 1..Len(good) |-> txs[good[i] + 1]]

\* C5: IdentifyTxs(req, positions) with pending[req] present queues exactly
\* one ProvideTxs frame with the same req whose transactions are
\* pending[req].txs[pos] for each listed position in range, in the order
\* listed; out-of-range positions are skipped and do not end the session;
\* decl_state becomes AwaitTx{req}; the pending entry is kept.
C5_IdentifyTxsAnswered ==
    [][ \A r \in PoolReqs, ps \in PoolPositions :
          (Dispatched(IDENTIFY_TXS) /\ last'.data = EncIdentifyTxs(r, ps)
              /\ r \in DOMAIN pending)
          => /\ out' = Append(out, build_frame(PROVIDE_TXS, DECL_EXT,
                           [req_id |-> r, txs |-> TxsAt(pending[r].txs, ps)]))
             /\ decl_state' = AwaitTx(r)
             /\ pending' = pending
             /\ pc' = "session" ]_vars

\* positions 0, 5, 1 were asked of a declaration of two transactions: the
\* frame queued carries tx0 and tx1 and the session goes on
C5_Witness ==
    /\ last.op = "msg" /\ last.decrypted /\ last.mtype = IDENTIFY_TXS
    /\ \E r \in PoolReqs :
          /\ last.data = EncIdentifyTxs(r, << 0, 5, 1 >>)
          /\ r \in DOMAIN pending /\ pending[r].txs = << Tx0, Tx1 >>
          /\ decl_state = AwaitTx(r)
          /\ out # << >>
          /\ out[Len(out)].mtype = PROVIDE_TXS
          /\ out[Len(out)].msg.txs = << Tx0, Tx1 >>
    /\ pc = "session"

\* C6: in the first session (AllocToken sent with req_id 1, so req_seq = 1),
\* with token T granted, handling one DeclareJob{tpl_id, outputs, txs} of n
\* transactions queues exactly one DeclJob frame, with req_id 2, token T and
\* n short hashes, sets decl_state to Pending{2} and publishes exactly one
\* JobSent{tpl_id, txs = n}.
C6_FirstDeclaration ==
    [][ \A T \in { << >>, TokenA, TokenC } :
          (Handled("DeclareJob") /\ req_seq = 1 /\ decl_state = Ready
              /\ token = Some(T))
          => /\ Len(out') = Len(out) + 1
             /\ SubSeq(out', 1, Len(out)) = out
             /\ LET f == out'[Len(out')] IN
                   /\ f.mtype = DECL_JOB
                   /\ f.ext = DECL_EXT
                   /\ f.msg.req_id = 2
                   /\ f.msg.token = T
                   /\ Len(f.msg.short_hashes) = Len(last'.ev.txs)
             /\ decl_state' = Pending(2)
             /\ emitted' = << JobSent(last'.ev.tpl_id, Len(last'.ev.txs)) >> ]_vars

\* the first declaration of the run was handled, of two transactions, with
\* the token AA BB
C6_Witness ==
    /\ last.op = "event" /\ last.ev.type = "DeclareJob"
    /\ Len(last.ev.txs) = 2
    /\ req_seq = 2 /\ decl_state = Pending(2) /\ token = Some(TokenA)
    /\ out # << >> /\ out[Len(out)].mtype = DECL_JOB
    /\ out[Len(out)].msg.token = TokenA
    /\ emitted = << JobSent(1, 2) >>

\* C7: at the start of every session after a reconnect the pending table is
\* empty, token is None and decl_state is NeedToken.
C7_SessionStartsClean ==
    pc = "request_token"
        => (DOMAIN pending = {} /\ token = None /\ decl_state = NeedToken)

\* C8: once the session loop has consumed Shutdown, run has returned: no new
\* connection attempt and no further frame.
C8_ShutdownEndsRun ==
    (last.op = "event" /\ last.ev.type = "Shutdown") => pc = "returned"

\* C9: if decl_state is Pending{req}, the pending table has an entry for req.
C9_PendingHasEntry ==
    decl_state.tag = "Pending" => decl_state.req \in DOMAIN pending

\* a second declaration is pending in a session while an earlier entry is
\* still in the table
C9_Witness ==
    /\ pc = "session"
    /\ decl_state.tag = "Pending"
    /\ Cardinality(DOMAIN pending) >= 2

\* C10: if decl_state is Ready, the pending table holds no entry (an entry is
\* removed when DeclJobOk or DeclJobErr answers it, so every entry present is
\* un-replied).
C10_ReadyNothingPending ==
    decl_state = Ready => DOMAIN pending = {}

\* C11: next_req sets req_seq to req_seq + 1 modulo the width of the counter
\* and the id it returns is not the id of an entry in the pending table, so
\* a new declaration overwrites no entry.
C11_FreshRequestIds ==
    [][ req_seq' # req_seq
        => /\ req_seq' = (req_seq + 1) % SeqMod
           /\ req_seq' \notin DOMAIN pending ]_vars

\* C12: every step that writes a protocol frame (the AllocToken of
\* request_token, a queued DeclJob or ProvideTxs) or dispatches an inbound
\* message is taken with the handshake state Done, and leaves it Done.
C12_ProtocolOnlyWhenDone ==
    [][ (last'.op \in {"request_token", "write", "msg"})
        => (hs_state = "Done" /\ hs_state' = "Done") ]_vars

\* a ProvideTxs frame was written, after the last request id of the run
\* was allocated
C12_Witness ==
    /\ last.op = "write" /\ last.res = "ok"
    /\ last.frame.mtype = PROVIDE_TXS
    /\ hs_state = "Done"
    /\ req_seq = MaxReq

\* C13 as stated: whenever decl_state is not NeedToken (AwaitToken, Ready,
\* Pending or AwaitTx) the stored token is present.
C13_TokenOutsideNeedToken ==
    decl_state # NeedToken => token.some

\* C13, amended: the token is a precondition for declaring.  Whenever
\* decl_state is Pending the stored token is present, and every DeclJob
\* frame is queued by a step that starts with a token stored and carries
\* that token.
C13_TokenWhilePending ==
    /\ [](decl_state.tag = "Pending" => token.some)
    /\ [][ \A i \in 1..Len(out') :
              (i > Len(out) /\ out'[i].mtype = DECL_JOB)
              => (token.some /\ out'[i].msg.token = token.val) ]_vars

\* the declaration with the last request id of the run is pending, with a
\* token stored
C13_Witness ==
    /\ decl_state.tag = "Pending" /\ token.some
    /\ pc = "session"
    /\ decl_state.req = MaxReq

\* the request id a dispatched payload names
ReqOf(data) == U32At(data, 0)

\* C14: JobOk, JobFailed and ProvideTxs are produced only for declarations
\* sent in the current session: when a DeclJobOk or DeclJobErr makes the
\* client publish JobOk or JobFailed, or an IdentifyTxs makes it queue
\* ProvideTxs, the request id of the message is one of a DeclJob frame queued
\* in this session (no entry of an earlier session is matched).
C14_AnswersOfThisSession ==
    [][ /\ ( /\ (Dispatched(DECL_JOB_OK) \/ Dispatched(DECL_JOB_ERR))
             /\ \E i \in 1..Len(emitted') :
                    emitted'[i].type \in {"JobOk", "JobFailed"} )
           => ReqOf(last'.data) \in sent
        /\ ( /\ Dispatched(IDENTIFY_TXS)
             /\ Len(out') > Len(out) )
           => ReqOf(last'.data) \in sent ]_vars

\* C15: when the read of the responder's reply returns fewer than 234 bytes
\* the handshake fails: HandshakeErr is the one event published, the
\* handshake state is Init again, no frame is written or queued, the
\* declaration fields are untouched and the client is at the backoff, from
\* which it connects again; every session then starts with decl_state
\* NeedToken and no token.
C15_ShortReplyFails ==
    /\ [][ (last'.op = "handshake_recv" /\ last'.n < EXPECTED_LEN)
           => /\ pc' = "backoff"
              /\ hs_state' = "Init"
              /\ Len(emitted') = 1 /\ emitted'[1].type = "HandshakeErr"
              /\ emitted'[1].msg \in {"recv", "closed", "response too short"}
              /\ out' = << >>
              /\ UNCHANGED <<decl_state, token, req_seq, pending>> ]_vars
    /\ [][ pc = "backoff" => pc' = "connect" ]_vars
    /\ [](pc = "request_token" => (decl_state = NeedToken /\ token = None))

\* a reply of 100 bytes was read after an earlier session had declared a job
C15_Witness ==
    /\ last.op = "handshake_recv" /\ last.n = 100
    /\ pc = "backoff" /\ hs_state = "Init"
    /\ emitted = << EvMsg("HandshakeErr", "response too short") >>
    /\ decl_state.tag = "Pending"

\* C16: the step that queues a DeclJob frame with request id rid has
\* inserted pending[rid], with the template id and the transactions of the
\* declaration: from the moment the frame is in the outbound channel, and so
\* before the pool can answer it, the entry exists.  The step is the handling
\* of a DeclareJob event, never the dispatch of a pool message.
C16_PendingBeforeFrame ==
    [][ \A i \in 1..Len(out') :
          (i > Len(out) /\ out'[i].mtype = DECL_JOB)
          => /\ Handled("DeclareJob")
             /\ out'[i].msg.req_id \in DOMAIN pending'
             /\ pending'[out'[i].msg.req_id].tpl_id = last'.ev.tpl_id
             /\ pending'[out'[i].msg.req_id].txs = last'.ev.txs ]_vars

\* the second declaration of a session was queued: its entry and the entry
\* of the first are in the table
C16_Witness ==
    /\ last.op = "event" /\ last.ev.type = "DeclareJob"
    /\ out # << >> /\ out[Len(out)].mtype = DECL_JOB
    /\ out[Len(out)].msg.req_id = MaxReq
    /\ sent = { MaxReq - 1, MaxReq }
    /\ DOMAIN pending = { MaxReq - 1, MaxReq }

\* C17: within a session the frame written is always the oldest frame in
\* the outbound channel and a written frame leaves the channel, handlers
\* queue behind the frames already waiting, and a session loop is entered,
\* and frames are queued and written, only once request_token has written the
\* session's AllocToken frame.
C17_FramesInOrder ==
    /\ [][ last'.op = "write"
           => /\ pc = "session" /\ out # << >>
              /\ last'.frame = Head(out)
              /\ last'.res = "ok" => out' = Tail(out) ]_vars
    /\ [][ (last'.op \in {"msg", "event"} /\ pc' = "session")
           => /\ Len(out') >= Len(out)
              /\ SubSeq(out', 1, Len(out)) = out ]_vars
    /\ [][ (pc' = "session" /\ pc # "session")
           => /\ last'.op = "request_token" /\ last'.res = "ok"
              /\ last'.frame.mtype = ALLOC_TOKEN
              /\ out' = << >> ]_vars
    /\ [](out # << >> => pc = "session")

\* a DeclJob frame was written while the ProvideTxs frame queued after it
\* waits in the channel
C17_Witness ==
    /\ last.op = "write" /\ last.res = "ok"
    /\ last.frame.mtype = DECL_JOB
    /\ Len(out) = 1 /\ out[1].mtype = PROVIDE_TXS
    /\ pc = "session"

\* the frame handle_msg is to see for the i-th frame the pool wrote
SentFrame(i) == << DECL_EXT, wire.frames[i].mtype, wire.frames[i].plain >>

\* C18: the frames dispatched are, in order and once each, the first frames
\* the pool wrote, however the stream was cut into reads; while the session
\* runs, the bytes in buf followed by the bytes not read yet are exactly the
\* frames not dispatched yet (a frame is dispatched only when all of it has
\* been read), buf never keeps a whole frame, and once everything is read
\* every frame has been dispatched.
C18_ReaderReassembles ==
    /\ Len(got) <= Len(wire.frames)
    /\ \A i \in 1..Len(got) : got[i] = SentFrame(i)
    /\ pc = "session"
          => /\ buf \o wire.unread
                   = StreamBytes(SubSeq(wire.frames, Len(got) + 1, Len(wire.frames)))
             /\ ~HasFrame(buf)
             /\ wire.unread = << >> => Len(got) = Len(wire.frames)

\* two frames were dispatched and the third is in buf with its header whole
\* and its payload cut short
C18_Witness ==
    /\ pc = "session"
    /\ Len(got) = 2
    /\ Len(buf) > HDR
    /\ wire.unread # << >>

\* C19: when IdentifyTxs is dispatched for a request id that has no pending
\* entry, the handler fails with InvalidState for that id: the session ends
\* with that error published, no frame is added to the queue, and decl_state,
\* token and pending are as they were before the message.
C19_UnknownIdentifyTxs ==
    [][ \A r \in PoolReqs, ps \in PoolPositions :
          (Dispatched(IDENTIFY_TXS) /\ last'.data = EncIdentifyTxs(r, ps)
              /\ r \notin DOMAIN pending)
          => /\ pc' = "backoff"
             /\ emitted' = << EvMsg("Err", InvalidStateErr(r)) >>
             /\ out' = << >>
             /\ decl_state' = decl_state
             /\ token' = token
             /\ pending' = pending ]_vars

\* a session that had declared a job and held a token has just ended on an
\* IdentifyTxs for a request id that is not in pending
C19_Witness ==
    /\ pc = "backoff"
    /\ last.op = "msg" /\ last.decrypted /\ last.mtype = IDENTIFY_TXS
    /\ IdentifyTxs_parse(last.data).ok
    /\ ReqOf(last.data) \notin DOMAIN pending
    /\ pending # EmptyMap
    /\ token # None
    /\ emitted = << EvMsg("Err", InvalidStateErr(ReqOf(last.data))) >>

\* C20: every inbound parser fails on every truncated input: when the input
\* is a proper prefix of a well-formed payload, the parser's result is an
\* error, never a message.
C20_TruncatedRejected ==
    (last.op = "parsed" /\ Len(last.data) < Len(last.whole)) => ~last.res.ok

\* C21: a session starts with decl_state = NeedToken, token = None and an
\* empty channel; the first thing the client does in it is request_token,
\* which writes AllocToken(next_req(), "sv2-jdc", 8) (so no queued frame is
\* written before it) and then sets decl_state to AwaitToken of the same id;
\* when the write fails the session ends and decl_state is still NeedToken.
C21_SessionStartsWithAllocToken ==
    /\ [](pc = "request_token"
            => /\ last.op = "handshake_recv" /\ last.ok
               /\ decl_state = NeedToken /\ token = None /\ out = << >>)
    /\ [][ /\ (last.op = "handshake_recv" /\ last.ok) => last'.op = "request_token"
           /\ last'.op = "write" => last.op # "handshake_recv"
           /\ last'.op = "request_token"
                => /\ last'.frame = build_frame(ALLOC_TOKEN, DECL_EXT,
                          [req_id |-> next_req(req_seq), user |-> "sv2-jdc",
                           min_nonce2 |-> 8])
                   /\ req_seq' = next_req(req_seq)
                   /\ token' = None
                   /\ IF last'.res = "ok"
                      THEN decl_state' = AwaitToken(next_req(req_seq)) /\ pc' = "session"
                      ELSE decl_state' = NeedToken /\ pc' = "backoff" ]_vars

\* the write of AllocToken has just failed in a session after the first, one
\* that followed a session in which a job was declared
C21_Witness ==
    /\ last.op = "request_token" /\ last.res = "write"
    /\ pc = "backoff"
    /\ decl_state = NeedToken
    /\ pending # EmptyMap

\* the types of the connection status events among the events es
StatusTypes ==
    {"PoolConnecting", "PoolDown", "PoolUp", "Handshaking", "HandshakeErr",
     "HandshakeDone"}
IsStatus(e) == e.type \in StatusTypes
StatusOf(es) ==
    LET sel == SelectSeq(es, IsStatus) IN [i \in 1..Len(sel) |-> sel[i].type]

\* C22: the status events of a connection attempt come in the order
\* PoolConnecting, then PoolDown or PoolUp; after PoolUp, Handshaking; after
\* Handshaking, HandshakeErr or HandshakeDone.  Each is published right after
\* its predecessor of the same attempt, PoolConnecting is published only at
\* the start of the run or after a backoff, and after a failed attempt or an
\* ended session the next step of the client is the backoff.
C22_StatusOrder ==
    [][ LET now == StatusOf(emitted')
            before == StatusOf(emitted)
        IN  /\ now \in { << >>,
                          << "PoolConnecting", "PoolDown" >>,
                          << "PoolConnecting", "PoolUp" >>,
                          << "Handshaking" >>,
                          << "Handshaking", "HandshakeErr" >>,
                          << "HandshakeErr" >>,
                          << "HandshakeDone" >> }
            /\ (now # << >> /\ now[1] = "PoolConnecting")
                  => last.op \in {"new", "backoff"}
            /\ (now # << >> /\ now[1] = "Handshaking")
                  => before = << "PoolConnecting", "PoolUp" >>
            /\ now \in { << "HandshakeErr" >>, << "HandshakeDone" >> }
                  => before = << "Handshaking" >>
            /\ before = << "PoolConnecting", "PoolUp" >> => now[1] = "Handshaking"
            /\ pc = "backoff" => (last'.op = "backoff" /\ now = << >>)
            /\ (now # << >> /\ now[Len(now)] \in {"PoolDown", "HandshakeErr"})
                  => pc' = "backoff" ]_vars

\* C22 (amended): as C22_StatusOrder, except that PoolUp is also published,
\* alone, by the step of a running session that dispatches AllocTokenOk and
\* keeps the session; every other status event keeps its place in the order.
C22_StatusOrderUntilSession ==
    [][ LET now == StatusOf(emitted')
            before == StatusOf(emitted)
        IN  /\ now \in { << >>,
                          << "PoolConnecting", "PoolDown" >>,
                          << "PoolConnecting", "PoolUp" >>,
                          << "Handshaking" >>,
                          << "Handshaking", "HandshakeErr" >>,
                          << "HandshakeErr" >>,
                          << "HandshakeDone" >>,
                          << "PoolUp" >> }
            /\ now = << "PoolUp" >>
                  => /\ pc = "session" /\ pc' = "session"
                     /\ Dispatched(ALLOC_TOKEN_OK)
            /\ (now # << >> /\ now[1] = "PoolConnecting")
                  => last.op \in {"new", "backoff"}
            /\ (now # << >> /\ now[1] = "Handshaking")
                  => before = << "PoolConnecting", "PoolUp" >>
            /\ now \in { << "HandshakeErr" >>, << "HandshakeDone" >> }
                  => before = << "Handshaking" >>
            /\ before = << "PoolConnecting", "PoolUp" >> => now[1] = "Handshaking"
            /\ pc = "backoff" => (last'.op = "backoff" /\ now = << >>)
            /\ (now # << >> /\ now[Len(now)] \in {"PoolDown", "HandshakeErr"})
                  => pc' = "backoff" ]_vars

\* in an attempt that follows an earlier session, HandshakeDone was
\* published, the session started and AllocTokenOk has just been dispatched
\* in it, publishing PoolUp again
C22_Witness ==
    /\ emitted = << Ev("PoolUp") >>
    /\ pc = "session"
    /\ last.op = "msg" /\ last.decrypted /\ last.mtype = ALLOC_TOKEN_OK
    /\ req_seq >= 2

\* the step before ended an attempt or a session for a reason other than
\* Shutdown: connect, handshake, read, write, decrypt, parse or InvalidState
FailedNotShutdown ==
    /\ pc = "backoff"
    /\ ~(last.op = "event" /\ last.ev.type = "Shutdown")
\* the client has just published PoolConnecting and called connect
Reconnecting ==
    /\ emitted # << >> /\ emitted[1] = Ev("PoolConnecting")
    /\ last.op = "connect"

\* C23: whenever an attempt or a session has ended for a reason other than
\* Shutdown, the client later publishes PoolConnecting and tries to connect
\* again.
C23_ReconnectsAfterFailure == FailedNotShutdown ~> Reconnecting

\* a session that had declared a job ended on an IdentifyTxs for an unknown
\* request id, the client slept, and it has just published PoolConnecting
\* and connected again
C23_Witness ==
    /\ Reconnecting
    /\ pc = "handshake"
    /\ pending # EmptyMap
    /\ decl_state \in { Pending(r) : r \in PoolReqs }

\* C24: the outbound channel never holds more than 32 frames, and the
\* session task is never stuck on it: whenever the task is inside
\* process_data, either the iteration at hand can be taken (its send finds
\* room) or the writer can take a frame out of the channel.
C24_SendNeverBlocksForever ==
    /\ Len(out) <= OUT_CAP
    /\ pc = "process" => (ENABLED ProcessFrame \/ ENABLED WriteOut)

\* the step is the client's recv that found its receiver lagging
LagStep == bus.lagged /\ ~bus'.lagged
\* the step is a recv that returned an event
RecvStep == ~bus.lagged /\ Len(bus'.q) < Len(bus.q)

\* C25: the recv that reports the lag keeps the session and leaves
\* decl_state, token, pending, req_seq and the retained events as they
\* were; every recv that returns an event returns the oldest one retained,
\* so the retained events are received in the order of their publication.
C25_LagKeepsState ==
    [][ /\ LagStep
           => /\ pc = "session" /\ pc' = "session"
              /\ emitted' = << >>
              /\ bus'.q = bus.q
              /\ UNCHANGED <<decl_state, token, pending, req_seq, blk_height,
                             coinbase_val, out>>
        /\ RecvStep
           => /\ last' = [op |-> "event", ev |-> Head(bus.q)]
              /\ bus'.q = Tail(bus.q)
              /\ \A i \in 1..Len(bus'.q) : bus'.q[i] = bus.q[i + 1] ]_vars

\* in a session that has its token the recv has just reported the lag; the
\* receiver is full of retained events and the session goes on
C25_Witness ==
    /\ pc = "session"
    /\ decl_state = Ready
    /\ token = Some(TokenA)
    /\ last.op = "lagged"
    /\ ~bus.lagged
    /\ Len(bus.q) = BusCap

\* the client took a step (Publish is a step of another task)
ClientStep == last' # last \/ pc' # pc
\* the NewTemplate events among the events q, oldest first
IsTemplate(e) == e.type = "NewTemplate"
Templates(q) == SelectSeq(q, IsTemplate)

\* C26: blk_height and coinbase_val follow the NewTemplate events whatever
\* the client is doing: when the client takes a step while it is connecting,
\* handshaking or in backoff and NewTemplate events wait in its receiver,
\* that step leaves blk_height and coinbase_val at the values of the newest
\* of them, and none of them is left waiting for a session.
C26_TemplatesFollowBus ==
    [][ ( /\ ClientStep
          /\ pc \in {"connect", "handshake", "hs_recv", "backoff"}
          /\ pc' # "returned"
          /\ ~bus.lagged
          /\ Templates(bus.q) # << >> )
        => LET ts == Templates(bus.q)
               newest == ts[Len(ts)]
           IN  /\ blk_height' = newest.height
               /\ coinbase_val' = newest.fees + 312500000
               /\ Templates(bus'.q) = << >> ]_vars

\* C27: the step that consumes a Shutdown event publishes no Err event and
\* no other failure event.
C27_ShutdownNoErrEvent ==
    [][ Handled("Shutdown")
        => \A i \in 1..Len(emitted') :
              emitted'[i].type \notin {"Err", "HandshakeErr", "PoolDown", "JobFailed"} ]_vars

\* C28: the frame build_frame returns starts with ext as two little-endian
\* bytes, then the type byte, then three bytes that are the little-endian
\* payload length, and then the payload unchanged, 6 + len bytes in all, for
\* every payload length up to 2^24 - 1.
C28_FrameLayout ==
    last.op = "framed"
    => LET f == last.res IN
       /\ Len(f) >= 6
       /\ \A i \in 1..6 : f[i] \in 0..255
       /\ f[1] + 256 * f[2] = last.ext
       /\ f[3] = last.mtype
       /\ f[4] + 256 * f[5] + 65536 * f[6] = last.len
       /\ last.whole => /\ Len(f) = 6 + Len(last.payload)
                         /\ SubSeq(f, 7, Len(f)) = last.payload

\* a frame was built for a payload of 2^24 - 1 bytes under an extension
\* type with the high bit set
C28_Witness ==
    /\ last.op = "framed"
    /\ last.len = 16777215
    /\ last.ext = 32770
    /\ last.res[4] = 255 /\ last.res[5] = 255 /\ last.res[6] = 255

\* the bytes bs as the u64 they encode in little-endian order
Pad8(bs) == bs \o [i \in 1..(8 - Len(bs)) |-> 0]

\* whether the u64 h is at most max, for max = 0x7F, 0x7FFF or 0x7FFFFF
\* given as its bytes
Below(h, max) ==
    /\ \A i \in (Len(max) + 1)..8 : h[i] = 0
    /\ \E k \in 0..Len(max) :
          /\ \A i \in (k + 1)..Len(max) : h[i] = max[i]
          /\ k > 0 => h[k] < max[k]

\* C29: encode_height(h) is one length byte followed by that many bytes:
\* none for 0, one up to 0x7F, two up to 0x7FFF, three up to 0x7FFFFF and
\* four otherwise; for every h the bytes after the length byte are the
\* little-endian encoding of h itself.
C29_HeightEncoding ==
    last.op = "encoded"
    => LET h == last.h
           r == last.res
           n == IF h = U64LE(0) THEN 0
                ELSE IF Below(h, << 127 >>) THEN 1
                ELSE IF Below(h, << 255, 127 >>) THEN 2
                ELSE IF Below(h, << 255, 255, 127 >>) THEN 3
                ELSE 4
       IN  /\ Len(r) = 1 + n
           /\ r[1] = n
           /\ Pad8(Tail(r)) = h

\* C29 (amended): as C29_HeightEncoding, except that above 0x7FFFFF the
\* four bytes after the length byte are the low four bytes of h (h as u32):
\* they are the encoding of h itself only for h below 2^32.
C29_HeightEncodingU32 ==
    last.op = "encoded"
    => LET h == last.h
           r == last.res
           n == IF h = U64LE(0) THEN 0
                ELSE IF Below(h, << 127 >>) THEN 1
                ELSE IF Below(h, << 255, 127 >>) THEN 2
                ELSE IF Below(h, << 255, 255, 127 >>) THEN 3
                ELSE 4
       IN  /\ Len(r) = 1 + n
           /\ r[1] = n
           /\ Tail(r) = SubSeq(h, 1, n)
           /\ (\A i \in 5..8 : h[i] = 0) => Pad8(Tail(r)) = h

\* the height 2^32 + 840000 was encoded as the four low bytes of 840000
C29_Witness ==
    /\ last.op = "encoded"
    /\ last.h = << 64, 209, 12, 0, 1, 0, 0, 0 >>
    /\ last.res = << 4, 64, 209, 12, 0 >>

\* C30: AllocToken::serialize gives req_id in four little-endian bytes, one
\* byte with the length of the user, the user, and min_nonce2 in two
\* little-endian bytes; with a user of more than 255 bytes it fails, and so
\* does DeclJob::serialize with a token of more than 255 bytes; after a
\* failure there is no frame.
C30_SerializeChecksLengths ==
    last.op = "serialized"
    => LET m == last.m
           r == last.res
       IN  /\ last.mtype = ALLOC_TOKEN
              => IF Len(m.user) > 255
                 THEN ~r.ok /\ last.frames = << >>
                 ELSE /\ r.ok
                      /\ Len(r.bytes) = 4 + 1 + Len(m.user) + 2
                      /\ \A i \in 1..Len(r.bytes) : r.bytes[i] \in 0..255
                      /\ r.bytes[1] + 256 * r.bytes[2] + 65536 * r.bytes[3]
                            = m.req_id % 16777216
                      /\ r.bytes[4] = m.req_id \div 16777216
                      /\ r.bytes[5] = Len(m.user)
                      /\ SubSeq(r.bytes, 6, 5 + Len(m.user)) = m.user
                      /\ r.bytes[6 + Len(m.user)] + 256 * r.bytes[7 + Len(m.user)]
                            = m.min_nonce2
                      /\ Len(last.frames) = 1
           /\ last.mtype = DECL_JOB
              => IF Len(m.token) > 255
                 THEN ~r.ok /\ last.frames = << >>
                 ELSE r.ok /\ Len(last.frames) = 1

\* AllocToken::serialize has just refused a user of 256 bytes
C30_Witness ==
    /\ last.op = "serialized"
    /\ last.mtype = ALLOC_TOKEN
    /\ Len(last.m.user) = 256
    /\ ~last.res.ok
    /\ last.frames = << >>

\* C31: dispatching a message whose type is none of 0x51, 0x53, 0x54, 0x55,
\* 0x57 changes nothing: decl_state, token, pending and req_seq are as
\* before, no frame is queued, no event is published and the session goes
\* on.
C31_UnknownTypeDiscarded ==
    [][ ( /\ last'.op = "msg" /\ last'.decrypted
          /\ last'.mtype \notin {81, 83, 84, 85, 87} )
        => /\ UNCHANGED <<decl_state, token, pending, req_seq, blk_height,
                          coinbase_val>>
           /\ out' = out
           /\ emitted' = << >>
           /\ pc' = "session" ]_vars

\* while a declaration is pending and its frame still waits in the channel,
\* the pool has sent a frame of type 0x52 with a payload, and the session
\* goes on
C31_Witness ==
    /\ pc = "session"
    /\ last.op = "msg" /\ last.decrypted
    /\ last.mtype = 82 /\ last.data # << >>
    /\ decl_state = Pending(2)
    /\ 2 \in DOMAIN pending
    /\ Len(out) = 1

\* an event of type t was published in the step
SomePublished(t) == \E i \in 1..Len(emitted') : emitted'[i].type = t

\* C32: a failed TCP connect publishes PoolDown and no PoolUp; a read that
\* returns EOF or an error in the session publishes Err and no PoolDown; and
\* PoolDown is published by no step other than a failed connect.
C32_PoolDownOnlyOnConnectFailure ==
    [][ /\ (last'.op = "connect" /\ ~last'.ok)
            => SomePublished("PoolDown") /\ NonePublished("PoolUp")
        /\ last'.op = "read_fails"
            => /\ SomePublished("Err") /\ NonePublished("PoolDown")
               /\ emitted'[Len(emitted')] =
                      EvMsg("Err", IF last'.eof THEN PoolClosedErr ELSE IoErr)
        /\ SomePublished("PoolDown")
            => pc = "connect" /\ last'.op = "connect" /\ ~last'.ok ]_vars

\* a session that had a declaration pending has just ended on EOF: Err was
\* published and the client is in its backoff sleep
C32_Witness ==
    /\ pc = "backoff"
    /\ last.op = "read_fails" /\ last.eof
    /\ emitted = << EvMsg("Err", PoolClosedErr) >>
    /\ hs_state = "Done"
    /\ DOMAIN pending # {}

\* C33: handling NewTemplate{height, txs, fees} sets blk_height to height
\* and coinbase_val to fees + 312500000 for every u64 fees, without failing
\* or wrapping: the handler returns, and coinbase_val with a zero ninth byte
\* is the sum of the two numbers; decl_state, token, pending and req_seq
\* stay and no frame is queued.
C33_CoinbaseIsFeesPlusSubsidy ==
    [][ last'.op = "template"
        => /\ pc' = "session"
           /\ blk_height' = last'.height
           /\ Add64(last'.fees, U64LE(SUBSIDY)) =
                 [low |-> coinbase_val', carry |-> 0]
           /\ UNCHANGED <<decl_state, token, pending, req_seq, out>> ]_vars

\* C34: the handshake reaches Done only when the responder's reply is
\* exactly 234 bytes: a successful handshake step has read 234 bytes, and a
\* reply of any other length leaves hs_state at Init.
C34_ReplyExactly234 ==
    [][ last'.op = "handshake_recv"
        => /\ last'.ok => last'.n = 234
           /\ last'.n # 234 => hs_state' = "Init" /\ pc' = "backoff" ]_vars

\* C35: over any run a JobOk or JobFailed event of a declaration comes after
\* the JobSent event of that declaration, and a declaration gets at most one
\* of them: at every JobOk or JobFailed in the log of published job events,
\* the JobOk and JobFailed events for its template up to and including it
\* are at most as many as the JobSent events for that template before it.
\* Hence the JobOk and JobFailed events are never more than the JobSent
\* events.
C35_OutcomeFollowsJobSent ==
    /\ \A i \in 1..Len(jobs_log) :
          jobs_log[i].type \in {"JobOk", "JobFailed"}
          => Cardinality(Logged(i, {"JobOk", "JobFailed"}, jobs_log[i].tpl_id))
               <= Cardinality(Logged(i - 1, {"JobSent"}, jobs_log[i].tpl_id))
    /\ Cardinality({ i \in 1..Len(jobs_log) : jobs_log[i].type # "JobSent" })
          <= Cardinality({ i \in 1..Len(jobs_log) : jobs_log[i].type = "JobSent" })

\* template 1 was declared, the session ended, and the pool's success for
\* it has just arrived in the next session, which queued no declaration
C35_Witness ==
    /\ jobs_log = << [type |-> "JobSent", tpl_id |-> 1],
                     [type |-> "JobOk", tpl_id |-> 1] >>
    /\ last.op = "msg" /\ last.decrypted /\ last.mtype = DECL_JOB_OK
    /\ sent = {}
    /\ req_seq = 3

\* C36: a DeclJob frame that was queued and announced by JobSent is written
\* to the socket in the same session: when a session ends by a failed read,
\* by the error of a handler or by Shutdown, no DeclJob frame is waiting in
\* the outbound channel.
C36_AnnouncedFrameIsWritten ==
    [][ ( /\ pc = "session" /\ pc' # "session"
          /\ last'.op \in {"read_fails", "msg", "event"} )
        => \A i \in 1..Len(out) : out[i].mtype # DECL_JOB ]_vars

\* the client's receiver holds a Shutdown that main sent before the client
\* ever entered a session loop (req_seq is 0 until the first request_token)
ShutdownBeforeFirstSession ==
    /\ req_seq = 0
    /\ main_pc = "waiting"
    /\ \E i \in 1..Len(bus.q) : bus.q[i].type = "Shutdown"

\* C37: a Shutdown published while the client is not in a session loop
\* still stops it before it establishes and uses a new session: with such a
\* Shutdown waiting, the client completes no handshake and writes no
\* AllocToken.
C37_ShutdownOutsideSessionStops ==
    [][ ShutdownBeforeFirstSession
        => /\ ~(last'.op = "handshake_recv" /\ last'.ok)
           /\ ~(last'.op = "request_token" /\ last'.res = "ok") ]_vars

====
